---- MODULE Spec2Model ----
(***************************************************************************)
(* Query execution pipeline of src/src/result_processor.c: a chain of     *)
(* result processors (RPs) anchored in a QueryIterator.  Every RP's Next   *)
(* is an operator on the "world" w (the mutable state of the handle, the   *)
(* chain, the document table, the index iterator and the host locks) and   *)
(* the SearchResult r the caller passes in; it yields [w, rc, r].          *)
(***************************************************************************)
EXTENDS Integers, Sequences, FiniteSets, TLC

VARIABLES
  input,         \* the request and the environment's choices (never changes)
  rps,           \* the allocated ResultProcessor objects, by id
  rootProc,      \* QueryIterator.rootProc (0 = NULL)
  endProc,       \* QueryIterator.endProc (0 = NULL)
  totalResults,  \* QueryIterator.totalResults
  minScore,      \* QueryIterator.minScore
  docTable,      \* per document: "live", "deleted" (flag set) or "missing"
  iterPos,       \* position of the root index iterator in input.stream
  gil,           \* holder of the host global lock: "free", "host", "pipeline"
  specLocked,    \* the pipeline holds the index-spec read lock
  specVersion,   \* IndexSpec version
  res,           \* the caller's SearchResult
  phase,         \* "build", "run", "freed"
  calls,         \* number of Next calls the caller made on endProc
  borrowed,      \* per document: number of DocTable_Borrow that gave a dmd
  returned,      \* per document: number of DMD_Return on its dmd
  events,        \* every return of an RP's Next: who, status, record
  stats,         \* counters of internal steps that no return shows
  lk             \* the threads: where the pipeline thread is in the buffer's
                 \* lock protocol, and what the host thread is doing

vars == <<input, rps, rootProc, endProc, totalResults, minScore, docTable,
          iterPos, gil, specLocked, specVersion, res, phase, calls,
          borrowed, returned, events, stats, lk>>

----------------------------------------------------------------------------
(* Bounds of the model *)

MaxDocs == 3
MaxK == 2

Docs == 1..MaxDocs
Scores == {1, 2}
Keys == {1, 2}
Vals == {1, 2}
MaxCalls == MaxDocs + 2

(* Program constants *)

RS_SCORE_FILTEROUT == -1
REDISEARCH_UNINITIALIZED == -1

\* A uint32_t is kept as <<high half, low half>>, each below 2^16, so that
\* the arithmetic of the source wraps where the source's does
HALF == 65536

U32(n) == <<(n \div HALF) % HALF, n % HALF>>
U32Inc(x) ==
  IF x[2] + 1 < HALF THEN <<x[1], x[2] + 1>> ELSE <<(x[1] + 1) % HALF, 0>>
U32Add(x, y) ==
  <<(x[1] + y[1] + ((x[2] + y[2]) \div HALF)) % HALF, (x[2] + y[2]) % HALF>>
U32Lt(x, y) == x[1] < y[1] \/ (x[1] = y[1] /\ x[2] < y[2])
U32Ge(x, y) == ~U32Lt(x, y)

----------------------------------------------------------------------------
(* SearchResult *)

\* a calloc'ed SearchResult
NullRes ==
  [docId |-> 0, score |-> 0, indexResult |-> 0, dmd |-> 0, sv |-> 0,
   dyn |-> [k \in Keys |-> 0]]

Ret(w, rc, r) == [w |-> w, rc |-> rc, r |-> r]

\* DMD_Return: gives one borrow back; NULL is ignored
DMD_Return(w, dmd) ==
  IF dmd = 0 THEN w ELSE [w EXCEPT !.returned[dmd] = @ + 1]

\* DocTable_Borrow: NULL for a document the table does not hold
DocTable_Borrow(w, d) ==
  IF w.docTable[d] = "missing"
    THEN [w |-> w, dmd |-> 0]
    ELSE [w |-> [w EXCEPT !.borrowed[d] = @ + 1], dmd |-> d]

Document_Deleted(w, dmd) == w.docTable[dmd] = "deleted"

\* RLookupRow_Wipe: drops the dynamic values, keeps the sort vector binding
RLookupRow_Wipe(r) == [r EXCEPT !.dyn = [k \in Keys |-> 0]]

\* RLookup_GetItem: the dynamic value, else the sort vector's
RLookup_GetItem(k, r) ==
  IF r.dyn[k] # 0 THEN r.dyn[k]
  ELSE IF r.sv # 0 THEN input.doc[r.sv].svVal[k]
  ELSE 0

SearchResult_Clear(w, r) ==
  Ret(DMD_Return(w, r.dmd), "OK",
      [RLookupRow_Wipe(r) EXCEPT !.score = 0, !.indexResult = 0, !.dmd = 0])

\* SearchResult_Destroy: Clear, then the row's memory
SearchResult_Destroy(w, r) == SearchResult_Clear(w, r).w

----------------------------------------------------------------------------
(* Allocation of RPs.  One record shape serves every RP struct; an RP uses *)
(* the fields of its own struct and leaves the others at calloc's zero.    *)

NewRP(p) ==
  [type |-> p.type, upstream |-> 0, freed |-> 0,
   next |-> CASE p.type = "Sorter" -> "Accum"
              [] p.type = "Buffer" -> "bufferDocs"
              [] OTHER -> "Next",
   size |-> U32(p.size), offset |-> U32(p.offset), limit |-> U32(p.limit),
   count |-> U32(0), counted |-> 0,
   pq |-> {}, pooled |-> <<>>,
   nkeys |-> p.nkeys, ascendMap |-> p.asc,
   loadKeysNull |-> TRUE, loadKeys |-> {},
   nLoadKeys |-> REDISEARCH_UNINITIALIZED,
   profileCount |-> 0, buf |-> <<>>, iter |-> 0]

\* a step of the request's plan
Step(type, size, offset, limit, nkeys, asc) ==
  [type |-> type, size |-> size, offset |-> offset, limit |-> limit,
   nkeys |-> nkeys, asc |-> asc]

Plain(type) == Step(type, 0, 0, 0, 0, {})

\* an event: one return of the Next of RP id
Event(w, id, rc, r) ==
  [rp |-> id, type |-> w.rps[id].type, rc |-> rc,
   r |-> IF rc = "OK" THEN r ELSE NullRes, gil |-> w.gil]

Log(out, id) ==
  [out EXCEPT !.w.events = Append(@, Event(out.w, id, out.rc, out.r))]

----------------------------------------------------------------------------
(* Index source RP *)

RECURSIVE RPNext(_, _, _)

Advance(w) == [w EXCEPT !.iterPos = @ + 1]

\* a source that does not look at the shard's slot range
OutOfSlot_Never(d) == FALSE

\* the slot test of rpidxNext: TRUE when the document is outside the shard
OutOfSlot(d) == input.isTrimming /\ ~input.doc[d].inSlot

\* the fields rpidxNext sets on an accepted posting
rpidxFill(r, pos, d, dmd) ==
  [r EXCEPT !.docId = d, !.indexResult = pos, !.score = 0, !.dmd = dmd,
            !.sv = IF input.doc[d].hasSv THEN d ELSE 0]

\* the read loop of rpidxNext.  A "TIMEOUT" entry of the stream is a read (or
\* the deadline poll at entry) that times out; whether the iterator goes on
\* afterwards is the environment's choice, input.stickyTimeout.
RECURSIVE rpidxLoop(_, _)
rpidxLoop(w, r) ==
  IF w.iterPos > Len(input.stream) THEN Ret(w, "EOF", r)
  ELSE
    LET e == input.stream[w.iterPos] IN
    IF e.kind = "TIMEOUT"
      THEN Ret(IF input.stickyTimeout THEN w ELSE Advance(w), "TIMEDOUT", r)
    ELSE IF e.kind = "NOTFOUND" THEN rpidxLoop(Advance(w), r)
    ELSE
      LET b == DocTable_Borrow(Advance(w), e.docId) IN
      IF b.dmd = 0 \/ Document_Deleted(b.w, b.dmd)
        THEN rpidxLoop(DMD_Return(b.w, b.dmd), r)
      ELSE IF OutOfSlot(e.docId)
        THEN rpidxLoop(DMD_Return(b.w, b.dmd), r)
      ELSE
        Ret([b.w EXCEPT !.totalResults = @ + 1], "OK",
            rpidxFill(r, w.iterPos, e.docId, b.dmd))

rpidxNext(w, id, r) ==
  IF input.iiterNull THEN Ret(w, "EOF", r) ELSE rpidxLoop(w, r)

\* An upstream from outside this file (a step of an aggregation), as the
\* loader can meet it: its rows carry a doc id and no dmd
rpRowsNext(w, id, r) ==
  IF w.iterPos > Len(input.stream) THEN Ret(w, "EOF", r)
  ELSE Ret(Advance(w), "OK", [NullRes EXCEPT !.docId = input.stream[w.iterPos].docId])

----------------------------------------------------------------------------
(* Scorer RP *)

\* a scoring function that prunes against a bound one above min_score
Scorer_PrunesAbove(r, min) ==
  IF input.prunes /\ input.doc[r.docId].score < min + 1
    THEN RS_SCORE_FILTEROUT
    ELSE input.doc[r.docId].score

\* the scoring function: an extension, here a fixed score per document; it
\* is handed min_score, and one that prunes filters out what scores below it
Scorer(r, min) ==
  IF input.prunes /\ input.doc[r.docId].score < min
    THEN RS_SCORE_FILTEROUT
    ELSE input.doc[r.docId].score

\* a scorer that clears a filtered record and leaves the total alone
rpscoreFilterOut_NoCount(w, r) == SearchResult_Clear(w, r)

\* a scorer that counts a filtered record out and does not clear it
rpscoreFilterOut_NoClear(w, r) == Ret([w EXCEPT !.totalResults = @ - 1], "OK", r)

\* what rpscoreNext does with a record scored RS_SCORE_FILTEROUT
rpscoreFilterOut(w, r) ==
  SearchResult_Clear([w EXCEPT !.totalResults = @ - 1], r)

RECURSIVE rpscoreNext(_, _, _)
rpscoreNext(w, id, r) ==
  LET up == RPNext(w, w.rps[id].upstream, r) IN
  IF up.rc # "OK" THEN up
  ELSE
    LET scored == [up.r EXCEPT !.score = Scorer(up.r, up.w.minScore)] IN
    IF scored.score = RS_SCORE_FILTEROUT
      THEN LET c == rpscoreFilterOut(up.w, scored) IN rpscoreNext(c.w, id, c.r)
      ELSE Ret(up.w, "OK", scored)

----------------------------------------------------------------------------
(* Metrics loader RP *)

\* RLookup_WriteKey of every metric of the posting into the row
rpMetricsNext(w, id, r) ==
  LET up == RPNext(w, w.rps[id].upstream, r) IN
  IF up.rc # "OK" THEN up
  ELSE Ret(up.w, "OK",
           [up.r EXCEPT !.dyn = [k \in Keys |->
              IF input.doc[up.r.docId].metric[k] # 0
                THEN input.doc[up.r.docId].metric[k] ELSE @[k]]])

----------------------------------------------------------------------------
(* Sorter RP *)

\* cmpByScore with the tie on doc ids turned around
cmpByScore_TieReversed(h1, h2) ==
  IF h1.score < h2.score THEN -1
  ELSE IF h1.score > h2.score THEN 1
  ELSE IF h1.docId < h2.docId THEN -1 ELSE 1

\* Compare results for the heap by score
cmpByScore(h1, h2) ==
  IF h1.score < h2.score THEN -1
  ELSE IF h1.score > h2.score THEN 1
  ELSE IF h1.docId > h2.docId THEN -1 ELSE 1

\* SORTASCMAP_GETASC
SORTASCMAP_GETASC(ascendMap, i) == i \in ascendMap

\* RSValue_Cmp on the values of the model
RSValue_Cmp(v1, v2) == IF v1 < v2 THEN -1 ELSE IF v1 > v2 THEN 1 ELSE 0

DocIdCmp(h1, h2) == IF h1.docId < h2.docId THEN -1 ELSE 1

\* Compare results for the heap by sorting key, from key i on; asc is the
\* ascending bit of the last key looked at
RECURSIVE cmpByFieldsFrom(_, _, _, _, _)
cmpByFieldsFrom(self, h1, h2, i, asc) ==
  IF i > self.nkeys
    THEN (IF asc THEN -DocIdCmp(h1, h2) ELSE DocIdCmp(h1, h2))
  ELSE
    LET v1 == RLookup_GetItem(i, h1)
        v2 == RLookup_GetItem(i, h2)
        ascending == SORTASCMAP_GETASC(self.ascendMap, i)
    IN
    IF v1 = 0 \/ v2 = 0 THEN
      IF v1 # 0 THEN 1
      ELSE IF v2 # 0 THEN -1
      ELSE (IF ascending THEN -DocIdCmp(h1, h2) ELSE DocIdCmp(h1, h2))
    ELSE
      LET rc == RSValue_Cmp(v1, v2) IN
      IF rc # 0 THEN (IF ascending THEN -rc ELSE rc)
      ELSE cmpByFieldsFrom(self, h1, h2, i + 1, ascending)

\* cmpByFields that stops after the first key
cmpByFields_FirstKeyOnly(self, h1, h2) ==
  cmpByFieldsFrom([self EXCEPT !.nkeys = 1], h1, h2, 1, FALSE)

cmpByFields(self, h1, h2) == cmpByFieldsFrom(self, h1, h2, 1, FALSE)

\* self->cmp, set by RPSorter_NewByFields
SorterCmp(self, h1, h2) ==
  IF self.nkeys # 0 THEN cmpByFields(self, h1, h2) ELSE cmpByScore(h1, h2)

\* The min-max heap, by what it promises: the greatest and the least element
\* under the sorter's comparator
mmh_max(self) ==
  CHOOSE x \in self.pq : \A y \in self.pq \ {x} : SorterCmp(self, x, y) > 0

mmh_min(self) ==
  CHOOSE x \in self.pq : \A y \in self.pq \ {x} : SorterCmp(self, x, y) < 0

\* the guard of rpsortNext_Yield; offset++ is evaluated only when the heap
\* is not empty and size is set
YieldGuard(self) ==
  Cardinality(self.pq) > 0 /\ (self.size = U32(0) \/ U32Lt(self.offset, self.size))

YieldOffset(self) ==
  IF Cardinality(self.pq) > 0 /\ self.size # U32(0)
    THEN U32Inc(self.offset) ELSE self.offset

\* Yield - pops the current top result from the heap
rpsortNext_Yield(w, id, r) ==
  LET self == w.rps[id]
      w1 == [w EXCEPT !.rps[id].offset = YieldOffset(self)]
  IN
  IF YieldGuard(self)
    THEN LET sr == mmh_max(self) IN
         Ret([w1 EXCEPT !.rps[id].pq = @ \ {sr}], "OK", sr)
    ELSE Ret(w1, "EOF", r)

\* SorterUpstreamDone without the timeout policy
SorterUpstreamDone_EofOnly(rc) == rc = "EOF"

\* upstream has finished for the sorter: EOF, or a timeout under Return
SorterUpstreamDone(rc) ==
  rc = "EOF" \/ (rc = "TIMEDOUT" /\ input.timeoutPolicy = "Return")

\* the keys rpsortNext_innerLoop decides to load, on the first record:
\* [null, keys, n] for loadKeys == NULL, the keys and nLoadKeys
SorterLoadKeys(self, h) ==
  IF self.nLoadKeys # REDISEARCH_UNINITIALIZED
    THEN [null |-> self.loadKeysNull, keys |-> self.loadKeys, n |-> self.nLoadKeys]
  ELSE IF h.sv = 0 /\ \A k \in Keys : h.dyn[k] = 0
    THEN [null |-> FALSE, keys |-> 1..self.nkeys, n |-> self.nkeys]
  ELSE
    LET miss == {i \in 1..self.nkeys : RLookup_GetItem(i, h) = 0} IN
    [null |-> miss = {}, keys |-> miss, n |-> Cardinality(miss)]

\* RLookup_LoadDocument: the host's values of the keys, written to the row
RLookup_LoadDocument(r, keys) ==
  [r EXCEPT !.dyn = [k \in Keys |->
     IF k \in keys /\ input.doc[r.dmd].hashVal[k] # 0
       THEN input.doc[r.dmd].hashVal[k] ELSE @[k]]]

\* the load fails: the host cannot open the document
LoadFails(r) == input.doc[r.dmd].loadFails

\* a read of the host key-space by RP id, with the lock holder at that time
KeyspaceAccess(w, id) ==
  [w EXCEPT !.stats.access = @ \cup {[rp |-> id, gil |-> w.gil]}]

\* the heap is not full, or grows without bound (size 0)
SorterHasRoom(self) ==
  self.size = U32(0) \/ U32Lt(U32(Cardinality(self.pq)), self.size)

\* a sorter that raises min_score to the score of the record it inserts
MinScoreOnInsert_Raised(m, h) == IF h.score > m THEN h.score ELSE m

\* min_score after h went into a heap with room: lowered to h's score
MinScoreOnInsert(m, h) == IF h.score < m THEN h.score ELSE m

\* min_score when the heap is full: raised to the score of the heap's least
\* record, before that record may be replaced
MinScoreOnFull(m, minh) == IF minh.score > m THEN minh.score ELSE m

\* a sorter that leaves the iterator's result in the record it keeps
DetachIndexResult_Kept(h) == h

\* h->indexResult = NULL, before h goes into the heap
DetachIndexResult(h) == [h EXCEPT !.indexResult = 0]

\* a sorter that never replaces the least record of a full heap
ReplacesMin_Never(self, h, minh) == FALSE

\* the test on a full heap: h takes the place of the least record minh
ReplacesMin(self, h, minh) == SorterCmp(self, h, minh) > 0

\* the second half of rpsortNext_innerLoop: h goes to the heap or is dropped
rpsortInsert(w, id, h) ==
  LET self == w.rps[id] IN
  IF SorterHasRoom(self) THEN
    LET h1 == DetachIndexResult(h) IN
    [w EXCEPT !.rps[id].pq = @ \cup {h1},
              !.rps[id].pooled = <<>>,
              !.minScore = MinScoreOnInsert(@, h1)]
  ELSE
    LET minh == mmh_min(self)
        w1 == [w EXCEPT !.minScore = MinScoreOnFull(@, minh)]
    IN
    IF ReplacesMin(self, h, minh) THEN
      LET h1 == DetachIndexResult(h)
          c == SearchResult_Clear(w1, minh)
      IN [c.w EXCEPT !.rps[id].pq = (@ \ {minh}) \cup {h1},
                     !.rps[id].pooled = <<c.r>>]
    ELSE
      LET c == SearchResult_Clear(w1, h) IN
      [c.w EXCEPT !.rps[id].pooled = <<c.r>>]

\* rpsortNext_innerLoop: one upstream record, then "QUEUED"
rpsortNext_innerLoop(w, id, r) ==
  LET self == w.rps[id]
      h0 == IF self.pooled = <<>> THEN NullRes ELSE RLookupRow_Wipe(self.pooled[1])
      up == RPNext(w, self.upstream, h0)
      wp == [up.w EXCEPT !.rps[id].pooled = <<up.r>>]
  IN
  IF SorterUpstreamDone(up.rc)
    THEN rpsortNext_Yield([wp EXCEPT !.rps[id].next = "Yield"], id, r)
  ELSE IF up.rc # "OK" THEN Ret(wp, up.rc, r)
  ELSE IF self.nkeys # 0 /\ up.r.dmd # 0 THEN
    LET ld == SorterLoadKeys(self, up.r)
        wl == [wp EXCEPT !.rps[id].loadKeysNull = ld.null,
                         !.rps[id].loadKeys = ld.keys,
                         !.rps[id].nLoadKeys = ld.n]
    IN
    IF ld.null THEN Ret(rpsortInsert(wl, id, up.r), "QUEUED", r)
    ELSE IF LoadFails(up.r) THEN
      LET c == SearchResult_Clear(KeyspaceAccess(wl, id), up.r) IN
      Ret([c.w EXCEPT !.rps[id].pooled = <<c.r>>,
                      !.totalResults = @ - 1,
                      !.stats.loadFailed = @ + 1], "QUEUED", r)
    ELSE Ret(rpsortInsert(KeyspaceAccess(wl, id), id,
                          RLookup_LoadDocument(up.r, ld.keys)), "QUEUED", r)
  ELSE Ret(rpsortInsert(wp, id, up.r), "QUEUED", r)

\* an accumulate step that hands the inner loop's status on
rpsortNext_Accum_Once(w, id, r) == rpsortNext_innerLoop(w, id, r)

\* rpsortNext_Accum: loops while the inner loop queues
RECURSIVE rpsortNext_Accum(_, _, _)
rpsortNext_Accum(w, id, r) ==
  LET q == rpsortNext_innerLoop(w, id, r) IN
  IF q.rc = "QUEUED" THEN rpsortNext_Accum(q.w, id, q.r) ELSE q

rpsortNext(w, id, r) ==
  IF w.rps[id].next = "Yield" THEN rpsortNext_Yield(w, id, r)
  ELSE rpsortNext_Accum(w, id, r)

----------------------------------------------------------------------------
(* Pager RP *)

\* a pager that stops one record late
PagerLimitReached_Past(self) == U32Lt(U32Add(self.limit, self.offset), self.count)

\* "If we've reached LIMIT": the sum is computed in 32 bits
PagerLimitReached(self) == U32Ge(self.count, U32Add(self.limit, self.offset))

\* the skip loop of rppagerNext: pulls and clears until count reaches offset
RECURSIVE rppagerSkip(_, _, _)
rppagerSkip(w, id, r) ==
  LET self == w.rps[id] IN
  IF U32Lt(self.count, self.offset) THEN
    LET up == RPNext(w, self.upstream, r) IN
    IF up.rc # "OK" THEN up
    ELSE
      LET c == SearchResult_Clear(
                 [up.w EXCEPT !.rps[id].count = U32Inc(@)], up.r)
      IN rppagerSkip(c.w, id, c.r)
  ELSE Ret(w, "OK", r)

rppagerNext(w, id, r) ==
  LET s == rppagerSkip(w, id, r) IN
  IF s.rc # "OK" THEN s
  ELSE IF PagerLimitReached(s.w.rps[id]) THEN Ret(s.w, "EOF", s.r)
  ELSE RPNext([s.w EXCEPT !.rps[id].count = U32Inc(@)],
              s.w.rps[id].upstream, s.r)

----------------------------------------------------------------------------
(* Loader RP *)

\* the loader leaves a record alone when its document is gone
\* a loader that skips only the records without a dmd
LoaderSkips_NullOnly(w, r) == r.dmd = 0

LoaderSkips(w, r) == r.dmd = 0 \/ Document_Deleted(w, r.dmd)

rploaderNext(w, id, r) ==
  LET up == RPNext(w, w.rps[id].upstream, r) IN
  IF up.rc # "OK" THEN up
  ELSE IF LoaderSkips(up.w, up.r) THEN Ret(up.w, "OK", up.r)
  ELSE IF LoadFails(up.r) THEN Ret(KeyspaceAccess(up.w, id), "OK", up.r)
  ELSE Ret(KeyspaceAccess(up.w, id), "OK", RLookup_LoadDocument(up.r, Keys))

----------------------------------------------------------------------------
(* Profile RP *)

rpprofileNext(w, id, r) ==
  LET up == RPNext(w, w.rps[id].upstream, r) IN
  Ret([up.w EXCEPT !.rps[id].profileCount = @ + 1], up.rc, up.r)

----------------------------------------------------------------------------
(* Counter RP *)

\* a counter that compensates the profiler it pulls from
CounterCompensated_Upstream(w, id) == w.rps[id].upstream

\* the profiler the counter compensates: the one the handle's endProc names
CounterCompensated(w, id) == w.endProc

\* a counting loop that does not clear what it counted
RECURSIVE rpcountLoop_NoClear(_, _, _)
rpcountLoop_NoClear(w, id, r) ==
  LET up == RPNext(w, w.rps[id].upstream, r) IN
  IF up.rc = "OK"
    THEN rpcountLoop_NoClear([up.w EXCEPT !.rps[id].counted = @ + 1], id, up.r)
    ELSE up

RECURSIVE rpcountLoop(_, _, _)
rpcountLoop(w, id, r) ==
  LET up == RPNext(w, w.rps[id].upstream, r) IN
  IF up.rc = "OK" THEN
    LET c == SearchResult_Clear([up.w EXCEPT !.rps[id].counted = @ + 1], up.r) IN
    rpcountLoop(c.w, id, c.r)
  ELSE up

rpcountNext(w, id, r) ==
  LET d == rpcountLoop(w, id, r) IN
  IF d.w.rps[d.w.rps[id].upstream].type = "Profile"
    THEN Ret([d.w EXCEPT !.rps[CounterCompensated(d.w, id)].profileCount = @ + 1],
             d.rc, d.r)
    ELSE d

----------------------------------------------------------------------------
(* Buffer and Locker RP *)

\* isResultValid, as the source writes it: the Document_Deleted flag itself
isResultValid(w, r) == Document_Deleted(w, r.dmd)

\* what ReturnResult leaves in the buffer slot
InvalidatedSlot(b) ==
  [b EXCEPT !.indexResult = 0, !.dmd = 0, !.sv = 0, !.dyn = [k \in Keys |-> 0]]

\* ReturnResult: the slot's record goes out, the slot is invalidated
ReturnResult(w, id, i, r) ==
  Ret([w EXCEPT !.rps[id].buf[i] = InvalidatedSlot(@)], "OK", w.rps[id].buf[i])

\* FixedSizeBlocksManager_getNextElement: the iterator's slot, 0 at the end
getNextElement(self) == IF self.iter <= Len(self.buf) THEN self.iter ELSE 0

\* a plain yield that asks upstream again when the buffer has run out
rpbufferNext_Yield_Pulls(w, id, r) ==
  LET i == getNextElement(w.rps[id]) IN
  IF i = 0 THEN RPNext(w, w.rps[id].upstream, r)
  ELSE ReturnResult([w EXCEPT !.rps[id].iter = @ + 1], id, i, r)

rpbufferNext_Yield(w, id, r) ==
  LET i == getNextElement(w.rps[id]) IN
  IF i = 0 THEN Ret(w, "EOF", r)
  ELSE ReturnResult([w EXCEPT !.rps[id].iter = @ + 1], id, i, r)

RECURSIVE rpbufferNext_ValidateAndYield(_, _, _)
rpbufferNext_ValidateAndYield(w, id, r) ==
  LET i == getNextElement(w.rps[id]) IN
  IF i = 0 THEN Ret(w, "EOF", r)
  ELSE
    LET w1 == [w EXCEPT !.rps[id].iter = @ + 1] IN
    IF isResultValid(w1, w1.rps[id].buf[i])
      THEN ReturnResult(w1, id, i, r)
      ELSE
        LET c == SearchResult_Clear(w1, w1.rps[id].buf[i]) IN
        rpbufferNext_ValidateAndYield([c.w EXCEPT !.rps[id].buf[i] = c.r], id, r)

\* a buffering loop that puts each new record in front of the others
RECURSIVE rpbufferFill_Reversed(_, _)
rpbufferFill_Reversed(w, id) ==
  LET up == RPNext(w, w.rps[id].upstream, NullRes) IN
  IF up.rc = "OK"
    THEN rpbufferFill_Reversed([up.w EXCEPT !.rps[id].buf = <<up.r>> \o @], id)
    ELSE [w |-> up.w, rc |-> up.rc]

\* the buffering loop: every OK record of upstream goes to a new slot
RECURSIVE rpbufferFill(_, _)
rpbufferFill(w, id) ==
  LET up == RPNext(w, w.rps[id].upstream, NullRes) IN
  IF up.rc = "OK"
    THEN rpbufferFill([up.w EXCEPT !.rps[id].buf = Append(@, up.r)], id)
    ELSE [w |-> up.w, rc |-> up.rc]

\* upstream has finished for the buffer: EOF, or a timeout under Return
BufferUpstreamDone(rc) ==
  rc = "EOF" \/ (rc = "TIMEDOUT" /\ input.timeoutPolicy = "Return")

\* an arena that counts the slot handed out before the last pull
FixedSizeBlocksManager_isEmpty_Never(self) == FALSE

\* FixedSizeBlocksManager_isEmpty: no record has been stored
FixedSizeBlocksManager_isEmpty(self) == self.buf = <<>>

\* What the host thread that holds the global lock does while the pipeline
\* waits in the blocking lock: with the spec read lock released it may write
\* to the index (delete documents, change the version); then it unlocks.
HostWhileWaiting(w) ==
  [w EXCEPT !.docTable = [d \in Docs |->
                IF d \in input.hostDeletes /\ @[d] = "live" THEN "deleted" ELSE @[d]],
            !.specVersion = IF input.hostBumps THEN @ + 1 ELSE @,
            !.gil = "free"]

\* a buffer that keeps the index-spec read lock while it waits
RedisSearchCtx_UnlockSpec_Kept(w) == w

\* RedisSearchCtx_UnlockSpec: releases the index-spec read lock
RedisSearchCtx_UnlockSpec(w) == [w EXCEPT !.specLocked = FALSE]

\* RedisModule_ThreadSafeContextLock: blocks until the host lets go of the
\* lock; stats.lockWaits keeps whether the spec read lock was held meanwhile
ThreadSafeContextLock(w) ==
  [HostWhileWaiting([w EXCEPT !.stats.lockWaits = @ \cup {w.specLocked}])
     EXCEPT !.gil = "pipeline"]

\* a buffer that validates after every blocking lock
ModeAfterLock_Always(v0, v1) == "ValidateAndYield"

\* the yield mode after the blocking lock
ModeAfterLock(v0, v1) == IF v0 # v1 THEN "ValidateAndYield" ELSE "Yield"

\* a buffer that yields after a failed try-lock without waiting for the lock
rpbufferLock_NoWait(w, id, v0) ==
  [w EXCEPT !.rps[id].next = "Yield",
            !.gil = IF @ = "free" THEN "pipeline" ELSE @]

\* lines 982-1000: try-lock; on failure unlock the spec, lock, compare versions
rpbufferLock(w, id, v0) ==
  LET wy == [w EXCEPT !.rps[id].next = "Yield"] IN
  IF wy.gil = "free" THEN [wy EXCEPT !.gil = "pipeline"]
  ELSE
    LET wu == RedisSearchCtx_UnlockSpec(wy)
        wk == ThreadSafeContextLock(wu)
    IN [wk EXCEPT !.rps[id].next = ModeAfterLock(v0, wk.specVersion)]

rpbufferNext_bufferDocs(w, id, r) ==
  LET v0 == w.specVersion
      f == rpbufferFill([w EXCEPT !.rps[id].buf = <<>>], id)
  IN
  IF ~(BufferUpstreamDone(f.rc) /\ ~FixedSizeBlocksManager_isEmpty(f.w.rps[id]))
    THEN Ret(f.w, f.rc, r)
  ELSE
    LET wl == rpbufferLock(f.w, id, v0)
        wi == [wl EXCEPT !.rps[id].iter = 1]
    IN
    IF wi.rps[id].next = "ValidateAndYield"
      THEN rpbufferNext_ValidateAndYield(wi, id, r)
      ELSE rpbufferNext_Yield(wi, id, r)

rpbufferNext(w, id, r) ==
  CASE w.rps[id].next = "bufferDocs" -> rpbufferNext_bufferDocs(w, id, r)
    [] w.rps[id].next = "Yield" -> rpbufferNext_Yield(w, id, r)
    [] OTHER -> rpbufferNext_ValidateAndYield(w, id, r)

----------------------------------------------------------------------------
(* Unlocker RP *)

\* RedisModule_ThreadSafeContextUnlock.  Unlocking a lock this thread does
\* not hold is undefined: input.ubUnlock picks what the build does with it.
ThreadSafeContextUnlock(w) ==
  [w EXCEPT !.stats.unlocks = @ + 1,
            !.stats.badUnlocks = IF w.gil # "pipeline" THEN @ + 1 ELSE @,
            !.gil = IF w.gil = "pipeline" \/ input.ubUnlock = "release"
                      THEN "free" ELSE @]

RPUnlocker_Next(w, id, r) ==
  LET up == RPNext(w, w.rps[id].upstream, r) IN
  IF up.rc = "EOF" THEN Ret(ThreadSafeContextUnlock(up.w), up.rc, up.r) ELSE up

----------------------------------------------------------------------------
(* rp->Next(rp, res) *)

RPNext(w, id, r) ==
  LET t == w.rps[id].type IN
  Log(CASE t = "Index" -> rpidxNext(w, id, r)
        [] t = "Scorer" -> rpscoreNext(w, id, r)
        [] t = "Metrics" -> rpMetricsNext(w, id, r)
        [] t = "Sorter" -> rpsortNext(w, id, r)
        [] t = "Pager" -> rppagerNext(w, id, r)
        [] t = "Loader" -> rploaderNext(w, id, r)
        [] t = "Profile" -> rpprofileNext(w, id, r)
        [] t = "Counter" -> rpcountNext(w, id, r)
        [] t = "Buffer" -> rpbufferNext(w, id, r)
        [] t = "Rows" -> rpRowsNext(w, id, r)
        [] OTHER -> RPUnlocker_Next(w, id, r), id)

----------------------------------------------------------------------------
(* The chain: QITR_PushRP, Profile_AddRPs, QITR_FreeChain *)

\* the handle's chain fields, as the chain operations see them
Handle == [rps |-> rps, rootProc |-> rootProc, endProc |-> endProc]

QITR_PushRP(q, rp) ==
  LET id == Len(q.rps) + 1 IN
  IF q.rootProc = 0
    THEN [rps |-> Append(q.rps, [rp EXCEPT !.upstream = 0]),
          rootProc |-> id, endProc |-> id]
    ELSE [rps |-> Append(q.rps, [rp EXCEPT !.upstream = q.endProc]),
          rootProc |-> q.rootProc, endProc |-> id]

\* RPProfile_New(rp, qiter): a profiler whose upstream is rp
RPProfile_New(up) == [NewRP(Plain("Profile")) EXCEPT !.upstream = up]

\* the loop of Profile_AddRPs, at cur
RECURSIVE ProfileLoop(_, _)
ProfileLoop(q, cur) ==
  IF cur # 0 /\ q.rps[cur].upstream # 0 /\ q.rps[q.rps[cur].upstream].upstream # 0
    THEN
      LET c1 == q.rps[cur].upstream
          new == Len(q.rps) + 1
          q1 == [q EXCEPT !.rps = Append(@, RPProfile_New(q.rps[c1].upstream))]
      IN ProfileLoop([q1 EXCEPT !.rps[c1].upstream = new], new)
    ELSE q

\* a profiling that wraps only the end of the chain
Profile_AddRPs_EndOnly(q) ==
  [q EXCEPT !.rps = Append(@, RPProfile_New(q.endProc)),
            !.endProc = Len(q.rps) + 1]

Profile_AddRPs(q) ==
  LET new == Len(q.rps) + 1 IN
  ProfileLoop([q EXCEPT !.rps = Append(@, RPProfile_New(q.endProc)),
                        !.endProc = new], new)

\* rpsortFree: the pooled result and what is left in the heap are destroyed
RECURSIVE DestroyAll(_, _)
DestroyAll(w, S) ==
  IF S = {} THEN w
  ELSE LET x == CHOOSE x \in S : TRUE IN
       DestroyAll(SearchResult_Destroy(w, x), S \ {x})

rpsortFree(w, id) ==
  LET self == w.rps[id]
      w1 == IF self.pooled # <<>> THEN SearchResult_Destroy(w, self.pooled[1]) ELSE w
  IN [DestroyAll(w1, self.pq) EXCEPT !.rps[id].pq = {}, !.rps[id].pooled = <<>>]

\* RPBufferAndLocker_Free: the blocks are freed as raw memory
RPBufferAndLocker_Free(w, id) ==
  [w EXCEPT !.rps[id].buf = <<>>, !.rps[id].iter = 0]

\* rp->Free(rp)
RPFree(w, id) ==
  LET w1 == CASE w.rps[id].type = "Sorter" -> rpsortFree(w, id)
              [] w.rps[id].type = "Buffer" -> RPBufferAndLocker_Free(w, id)
              [] OTHER -> w
  IN [w1 EXCEPT !.rps[id].freed = @ + 1, !.stats.freeOrder = Append(@, id)]

\* a destruction that stops after the RP at the end of the chain
FreeFrom_EndOnly(w, rp) == IF rp = 0 THEN w ELSE RPFree(w, rp)

RECURSIVE FreeFrom(_, _)
FreeFrom(w, rp) ==
  IF rp = 0 THEN w ELSE FreeFrom(RPFree(w, rp), w.rps[rp].upstream)

QITR_FreeChain(w) == FreeFrom(w, w.endProc)

\* QITR_Cleanup: the same loop, started at rootProc; every RP of this file
\* has a Free function
QITR_Cleanup(w, root) == FreeFrom(w, root)

----------------------------------------------------------------------------
(* Actions *)

\* the mutable state the RPs work on
World ==
  [rps |-> rps, endProc |-> endProc, totalResults |-> totalResults,
   minScore |-> minScore, docTable |-> docTable, iterPos |-> iterPos,
   gil |-> gil, specLocked |-> specLocked, specVersion |-> specVersion,
   borrowed |-> borrowed, returned |-> returned, events |-> events,
   stats |-> stats]

SetWorld(w) ==
  /\ rps' = w.rps
  /\ totalResults' = w.totalResults
  /\ minScore' = w.minScore
  /\ docTable' = w.docTable
  /\ iterPos' = w.iterPos
  /\ gil' = w.gil
  /\ specLocked' = w.specLocked
  /\ specVersion' = w.specVersion
  /\ borrowed' = w.borrowed
  /\ returned' = w.returned
  /\ events' = w.events
  /\ stats' = w.stats

Built == Len(rps) >= Len(input.plan)

\* the request builds its chain, one QITR_PushRP per step of the plan
PushRP ==
  /\ phase = "build"
  /\ ~Built
  /\ LET q == QITR_PushRP(Handle, NewRP(input.plan[Len(rps) + 1])) IN
       /\ rps' = q.rps
       /\ rootProc' = q.rootProc
       /\ endProc' = q.endProc
  /\ UNCHANGED <<input, totalResults, minScore, docTable, iterPos, gil,
                 specLocked, specVersion, res, phase, calls, borrowed,
                 returned, events, stats, lk>>

\* a profiled request wraps the built chain
AddProfile ==
  /\ phase = "build"
  /\ Built
  /\ input.profile
  /\ LET q == Profile_AddRPs(Handle) IN
       /\ rps' = q.rps
       /\ rootProc' = q.rootProc
       /\ endProc' = q.endProc
  /\ phase' = "run"
  /\ UNCHANGED <<input, totalResults, minScore, docTable, iterPos, gil,
                 specLocked, specVersion, res, calls, borrowed,
                 returned, events, stats, lk>>

\* the caller of the chain: on OK it takes the record and clears it
CallerTakes(out) ==
  IF out.rc = "OK" THEN SearchResult_Clear(out.w, out.r) ELSE out

\* the caller pulls one record from the end of the chain
CallNext ==
  /\ \/ phase = "run"
     \/ phase = "build" /\ Built /\ ~input.profile
  /\ endProc # 0
  /\ lk.pc \in {"atomic", "yield"}
  /\ calls < MaxCalls
  /\ LET fin == CallerTakes(RPNext(World, endProc, res)) IN
       /\ SetWorld(fin.w)
       /\ res' = fin.r
  /\ phase' = "run"
  /\ calls' = calls + 1
  /\ UNCHANGED <<input, rootProc, endProc, lk>>

\* the request ends: the caller's record and the chain are destroyed
FreeChain ==
  /\ phase \in {"build", "run"}
  /\ SetWorld(QITR_FreeChain(SearchResult_Destroy(World, res)))
  /\ res' = NullRes
  /\ phase' = "freed"
  /\ UNCHANGED <<input, rootProc, endProc, calls, lk>>

\* the request is given up before it has run: QITR_Cleanup on what is built
Cleanup ==
  /\ phase = "build"
  /\ SetWorld(QITR_Cleanup(World, rootProc))
  /\ phase' = "cleaned"
  /\ UNCHANGED <<input, rootProc, endProc, res, calls, lk>>

Next == PushRP \/ AddProfile \/ CallNext \/ FreeChain \/ Cleanup

----------------------------------------------------------------------------
(* Initial states *)

DefaultDoc ==
  [score |-> 1, hasSv |-> FALSE, svVal |-> [k \in Keys |-> 0],
   hashVal |-> [k \in Keys |-> 0], loadFails |-> FALSE, inSlot |-> TRUE,
   metric |-> [k \in Keys |-> 0]]

DefaultInput ==
  [plan |-> <<>>, profile |-> FALSE, stream |-> <<>>,
   doc |-> [d \in Docs |-> DefaultDoc], isTrimming |-> FALSE,
   iiterNull |-> FALSE, stickyTimeout |-> FALSE, timeoutPolicy |-> "Return",
   hostDeletes |-> {}, hostBumps |-> FALSE, ubUnlock |-> "noop",
   threads |-> FALSE, prunes |-> FALSE]

\* the state after the handle's construction, for a request inp, a document
\* table dt and a global lock that is free or held by the host
InitWith(inp, dt, g) ==
  /\ input = inp
  /\ rps = <<>>
  /\ rootProc = 0
  /\ endProc = 0
  /\ totalResults = 0
  /\ minScore = 0
  /\ docTable = dt
  /\ iterPos = 1
  /\ gil = g
  /\ specLocked = TRUE
  /\ specVersion = 0
  /\ res = NullRes
  /\ phase = "build"
  /\ calls = 0
  /\ borrowed = [d \in Docs |-> 0]
  /\ returned = [d \in Docs |-> 0]
  /\ events = <<>>
  /\ stats = [loadFailed |-> 0, unlocks |-> 0, badUnlocks |-> 0,
              access |-> {}, lockWaits |-> {}, freeOrder |-> <<>>]
  /\ lk = IF inp.threads
            THEN [pc |-> "idle", host |-> IF g = "host" THEN "holding" ELSE "idle",
                  v0 |-> 0, waited |-> FALSE]
            ELSE [pc |-> "atomic", host |-> "absent", v0 |-> 0, waited |-> FALSE]

AllLive == [d \in Docs |-> "live"]

\* sequences of distinct documents
DocSeqs ==
  {s \in UNION {[1..n -> Docs] : n \in 0..MaxDocs} :
     \A i, j \in DOMAIN s : i # j => s[i] # s[j]}

\* increasing sequences of documents, as an index iterator reads them
SortedDocSeqs == {s \in DocSeqs : \A i, j \in DOMAIN s : i < j => s[i] < s[j]}

\* the streams that read documents 1..n
PrefixDocSeqs == {[i \in 1..n |-> i] : n \in 0..MaxDocs}

Posting(d) == [kind |-> "OK", docId |-> d]
Marker(kind) == [kind |-> kind, docId |-> 0]

OKStream(s) == [i \in DOMAIN s |-> Posting(s[i])]

\* stream st with a marker before position p
WithMarker(st, p, kind) ==
  SubSeq(st, 1, p - 1) \o <<Marker(kind)>> \o SubSeq(st, p, Len(st))

\* the documents of sequence s
DocsOf(s) == {s[i] : i \in DOMAIN s}

\* the scorings of the documents of s with scores of S; a document the
\* index does not hold keeps the default score
ScoresOn(s, S) ==
  {sc \in [Docs -> S] : \A d \in Docs \ DocsOf(s) : sc[d] = DefaultDoc.score}

WithScores(sc) == [d \in Docs |-> [DefaultDoc EXCEPT !.score = sc[d]]]

ScoreSorter(k) == Step("Sorter", k, 0, 0, 0, {})
Pager(offset, limit) == Step("Pager", 0, offset, limit, 0, {})

\* score sort: every order of arrival, every scoring, every K
InitSort ==
  \E s \in DocSeqs, k \in 1..MaxK : \E sc \in ScoresOn(s, Scores) :
    InitWith([DefaultInput EXCEPT
                !.plan = <<Plain("Index"), Plain("Scorer"), ScoreSorter(k)>>,
                !.stream = OKStream(s),
                !.doc = WithScores(sc)],
             AllLive, "free")

\* the scores of the pruning runs: below, at and above the first min_score
PruneScores == {-2, 0, 1}

\* score sort over scores of either sign, behind a scoring function that
\* prunes below min_score or one that does not
InitPrune ==
  \E s \in PrefixDocSeqs, k \in {1, MaxK}, pr \in BOOLEAN :
    \E sc \in ScoresOn(s, PruneScores) :
    InitWith([DefaultInput EXCEPT
                !.plan = <<Plain("Index"), Plain("Scorer"), ScoreSorter(k)>>,
                !.stream = OKStream(s),
                !.doc = WithScores(sc),
                !.prunes = pr],
             AllLive, "free")

\* score sort over a stream in which one read times out
InitSortTimeout ==
  \E s \in PrefixDocSeqs, k \in 1..MaxK,
     pol \in {"Return", "Fail"}, sticky \in BOOLEAN :
    \E p \in 1..(Len(s) + 1), sc \in ScoresOn(s, Scores) :
      InitWith([DefaultInput EXCEPT
                  !.plan = <<Plain("Index"), Plain("Scorer"), ScoreSorter(k)>>,
                  !.stream = WithMarker(OKStream(s), p, "TIMEOUT"),
                  !.doc = WithScores(sc),
                  !.timeoutPolicy = pol,
                  !.stickyTimeout = sticky],
               AllLive, "free")

\* the chain that loads documents under the host's global lock, alone or
\* with a pager or a counter after the unlocker
BufferPlans ==
  {<<Plain("Index"), Plain("Buffer"), Plain("Loader"), Plain("Unlocker")>>,
   <<Plain("Index"), Plain("Buffer"), Plain("Loader"), Plain("Unlocker"),
     Plain("Counter")>>}
  \cup {<<Plain("Index"), Plain("Buffer"), Plain("Loader"), Plain("Unlocker"),
          Pager(o, 1)>> : o \in 0..1}

\* the global lock is free when the buffer tries it
InitBufFree ==
  \E pl \in BufferPlans, s \in SortedDocSeqs, ub \in {"noop", "release"} :
    InitWith([DefaultInput EXCEPT !.plan = pl, !.stream = OKStream(s),
                                  !.ubUnlock = ub],
             AllLive, "free")

\* the host holds the global lock when the buffer tries it, and may delete
\* documents and change the index version before it lets go
InitBufHost ==
  \E pl \in BufferPlans, s \in SortedDocSeqs,
     bump \in BOOLEAN, ub \in {"noop", "release"} :
    \E del \in SUBSET DocsOf(s) :
    InitWith([DefaultInput EXCEPT !.plan = pl, !.stream = OKStream(s),
                                  !.hostDeletes = del, !.hostBumps = bump,
                                  !.ubUnlock = ub],
             AllLive, "host")

\* the buffer over a stream in which one read times out
InitBufTimeout ==
  \E pl \in BufferPlans, s \in SortedDocSeqs, g \in {"free", "host"},
     pol \in {"Return", "Fail"}, sticky \in BOOLEAN :
    \E p \in 1..(Len(s) + 1) :
      InitWith([DefaultInput EXCEPT
                  !.plan = pl,
                  !.stream = WithMarker(OKStream(s), p, "TIMEOUT"),
                  !.timeoutPolicy = pol, !.stickyTimeout = sticky,
                  !.hostBumps = TRUE],
               AllLive, g)

\* a pager over the source, every offset and limit up to the stream's length
InitPager ==
  \E s \in SortedDocSeqs, o \in 0..MaxDocs, l \in 0..MaxDocs :
    InitWith([DefaultInput EXCEPT
                !.plan = <<Plain("Index"), Pager(o, l)>>,
                !.stream = OKStream(s)],
             AllLive, "free")

\* a pager whose offset + limit reaches 2^32: RPPager_New keeps the low 32
\* bits of its arguments, and -1 and -2 stand for 2^32 - 1 and 2^32 - 2
InitPagerWide ==
  \E s \in SortedDocSeqs, o \in 0..2, l \in {-1, -2} :
    InitWith([DefaultInput EXCEPT
                !.plan = <<Plain("Index"), Pager(o, l)>>,
                !.stream = OKStream(s)],
             AllLive, "free")

\* what the source can meet: a live document, a deleted one, one the table
\* does not hold, one outside the shard's slots
DocConditions == {"live", "deleted", "missing", "outOfSlot"}

\* the source's filters, with a scorer that filters out and a counter
InitSource ==
  \E s \in {s \in SortedDocSeqs : Len(s) = MaxDocs},
     cond \in [Docs -> DocConditions \cup {"filtered"}] :
    \E p \in 0..Len(s) :
      InitWith([DefaultInput EXCEPT
                  !.plan = <<Plain("Index"), Plain("Metrics"), Plain("Scorer"),
                             Plain("Counter")>>,
                  !.stream = IF p = 0 THEN OKStream(s)
                             ELSE WithMarker(OKStream(s), p, "NOTFOUND"),
                  !.doc = [d \in Docs |->
                            [DefaultDoc EXCEPT
                               !.score = IF cond[d] = "filtered"
                                           THEN RS_SCORE_FILTEROUT ELSE 1,
                               !.inSlot = cond[d] # "outOfSlot"]],
                  !.isTrimming = \E d \in Docs : cond[d] = "outOfSlot"],
               [d \in Docs |-> IF cond[d] \in {"deleted", "missing"}
                                 THEN cond[d] ELSE "live"],
               "free")

\* what a document offers a sort by a field: the value in its sort vector,
\* the value in the host's hash, no value at all, or a hash that cannot load
DocProfiles ==
  {[DefaultDoc EXCEPT !.hasSv = TRUE, !.svVal = [k \in Keys |-> v]] : v \in Vals}
  \cup {[DefaultDoc EXCEPT !.hashVal = [k \in Keys |-> v]] : v \in Vals}
  \cup {DefaultDoc, [DefaultDoc EXCEPT !.loadFails = TRUE],
        [DefaultDoc EXCEPT !.score = RS_SCORE_FILTEROUT]}

FieldSorter(k, asc) == Step("Sorter", k, 0, 0, 1, asc)

\* sort by one field, ascending or descending, after a scorer
InitField ==
  \E s \in {s \in SortedDocSeqs : Len(s) = MaxDocs},
     dp \in [Docs -> DocProfiles], k \in {1, MaxK}, asc \in {{}, {1}} :
    InitWith([DefaultInput EXCEPT
                !.plan = <<Plain("Index"), Plain("Scorer"), FieldSorter(k, asc)>>,
                !.stream = OKStream(s),
                !.doc = dp],
             AllLive, "free")

\* a document whose sort vector holds value v[k] for key k, 0 for none
SvDoc(v) == [DefaultDoc EXCEPT !.hasSv = TRUE, !.svVal = v]

\* the values of two sort keys in a sort vector: the first key absent, or
\* present with the second absent or one of two values
TwoKeyVals == {<<0, 0>>, <<1, 0>>, <<1, 1>>, <<1, 2>>}

\* sort by two fields, each ascending or descending, without a limit
InitFieldKeys ==
  \E v \in [Docs -> TwoKeyVals], asc \in SUBSET Keys :
    InitWith([DefaultInput EXCEPT
                !.plan = <<Plain("Index"), Step("Sorter", 0, 0, 0, 2, asc)>>,
                !.stream = OKStream([d \in Docs |-> d]),
                !.doc = [d \in Docs |-> SvDoc(v[d])]],
             AllLive, "free")

\* sort by one field on which all documents differ, without a limit
InitFieldDistinct ==
  \E v \in {s \in DocSeqs : Len(s) = MaxDocs}, asc \in {{}, {1}} :
    InitWith([DefaultInput EXCEPT
                !.plan = <<Plain("Index"), Step("Sorter", 0, 0, 0, 1, asc)>>,
                !.stream = OKStream([d \in Docs |-> d]),
                !.doc = [d \in Docs |-> SvDoc([k \in Keys |-> v[d]])]],
             AllLive, "free")

\* what a document offers the loader: a value in the host's hash, a hash
\* that cannot load, nothing
LoadProfiles ==
  {[DefaultDoc EXCEPT !.hashVal = [k \in Keys |-> 1]],
   [DefaultDoc EXCEPT !.loadFails = TRUE], DefaultDoc}

\* the loader behind a buffer that yields in plain mode, after the host has
\* deleted a document
InitLoader ==
  \E dp \in [Docs -> LoadProfiles], del \in {{}, {1}, {MaxDocs}} :
    InitWith([DefaultInput EXCEPT
                !.plan = <<Plain("Index"), Plain("Buffer"), Plain("Loader"),
                           Plain("Unlocker")>>,
                !.stream = OKStream([d \in Docs |-> d]),
                !.doc = dp,
                !.hostDeletes = del],
             AllLive, "host")

\* the loader over rows that carry no dmd
InitLoaderRows ==
  \E s \in SortedDocSeqs :
    InitWith([DefaultInput EXCEPT
                !.plan = <<Plain("Rows"), Plain("Loader")>>,
                !.stream = OKStream(s),
                !.doc = [d \in Docs |-> [DefaultDoc EXCEPT !.hashVal = [k \in Keys |-> 1]]]],
             AllLive, "free")

\* the whole pipeline, plain and profiled
InitFull ==
  \E s \in PrefixDocSeqs, g \in {"free", "host"}, prof \in BOOLEAN :
    \E sc \in ScoresOn(s, Scores \cup {RS_SCORE_FILTEROUT}) :
    InitWith([DefaultInput EXCEPT
                !.plan = <<Plain("Index"), Plain("Scorer"), ScoreSorter(MaxK),
                           Plain("Buffer"), Plain("Loader"), Plain("Unlocker"),
                           Pager(1, 1)>>,
                !.profile = prof,
                !.stream = OKStream(s),
                !.doc = WithScores(sc),
                !.hostDeletes = {1}, !.hostBumps = TRUE],
             AllLive, g)

\* profiled chains of one to four RPs, with a counter last or before a pager
ProfiledPlan == <<Plain("Index"), Plain("Scorer"), Plain("Counter"), Pager(0, 1)>>

InitProfile ==
  \E n \in 1..Len(ProfiledPlan), s \in PrefixDocSeqs :
    InitWith([DefaultInput EXCEPT
                !.plan = SubSeq(ProfiledPlan, 1, n),
                !.profile = TRUE,
                !.stream = OKStream(s)],
             AllLive, "free")

\* a chain that nobody has given an index iterator
InitNoIterator ==
  \E pl \in BufferPlans, prof \in BOOLEAN :
    InitWith([DefaultInput EXCEPT !.plan = pl, !.profile = prof,
                                  !.iiterNull = TRUE],
             AllLive, "free")

Init ==
  \/ InitSort
  \/ InitSortTimeout
  \/ InitBufFree
  \/ InitBufHost
  \/ InitBufTimeout
  \/ InitPager
  \/ InitPagerWide
  \/ InitSource
  \/ InitField
  \/ InitFieldKeys
  \/ InitFieldDistinct
  \/ InitLoader
  \/ InitLoaderRows
  \/ InitProfile
  \/ InitPrune
  \/ InitFull
  \/ InitNoIterator

Spec == Init /\ [][Next]_vars

----------------------------------------------------------------------------
(* The buffer's lock protocol, thread by thread.  The first pull through   *)
(* the buffer is taken apart at its lock calls (the loader and the         *)
(* unlocker before it do nothing until their upstream returns), and the    *)
(* host thread takes the global lock, asks for the index-spec write lock,  *)
(* writes and lets go.                                                     *)

BufId == CHOOSE id \in 1..Len(rps) : rps[id].type = "Buffer"

\* lines 946-953: the version is read and the blocks are initialised
LkStart ==
  /\ lk.pc = "idle"
  /\ Built
  /\ rps' = [rps EXCEPT ![BufId].buf = <<>>]
  /\ lk' = [lk EXCEPT !.pc = "fill", !.v0 = specVersion]
  /\ phase' = "run"
  /\ UNCHANGED <<input, rootProc, endProc, totalResults, minScore, docTable,
                 iterPos, gil, specLocked, specVersion, res, calls, borrowed,
                 returned, events, stats>>

\* lines 956-976: one turn of the buffering loop
LkFill ==
  /\ lk.pc = "fill"
  /\ LET up == RPNext(World, rps[BufId].upstream, NullRes) IN
       IF up.rc = "OK"
         THEN /\ SetWorld([up.w EXCEPT !.rps[BufId].buf = Append(@, up.r)])
              /\ lk' = lk
         ELSE /\ BufferUpstreamDone(up.rc)
              /\ SetWorld(up.w)
              /\ lk' = [lk EXCEPT !.pc = "try"]
  /\ UNCHANGED <<input, rootProc, endProc, res, phase, calls>>

\* the state in which the buffer starts to yield, in the mode given
StartYield(w, mode) ==
  [w EXCEPT !.rps[BufId].next = mode, !.rps[BufId].iter = 1, !.gil = "pipeline"]

\* line 984: RedisModule_ThreadSafeContextTryLock
LkTryLock ==
  /\ lk.pc = "try"
  /\ IF gil = "free"
       THEN /\ SetWorld(StartYield(World, "Yield"))
            /\ lk' = [lk EXCEPT !.pc = "yield"]
       ELSE /\ SetWorld(World)
            /\ lk' = [lk EXCEPT !.pc = "unlockSpec"]
  /\ UNCHANGED <<input, rootProc, endProc, res, phase, calls>>

\* line 990: RedisSearchCtx_UnlockSpec
LkUnlockSpec ==
  /\ lk.pc = "unlockSpec"
  /\ SetWorld(RedisSearchCtx_UnlockSpec(World))
  /\ lk' = [lk EXCEPT !.pc = "lock"]
  /\ UNCHANGED <<input, rootProc, endProc, res, phase, calls>>

\* lines 993-999: the blocking lock returns once the lock is free; then the
\* versions are compared
LkLock ==
  /\ lk.pc = "lock"
  /\ gil = "free"
  /\ SetWorld(StartYield(World, ModeAfterLock(lk.v0, specVersion)))
  /\ lk' = [lk EXCEPT !.pc = "yield", !.waited = TRUE]
  /\ UNCHANGED <<input, rootProc, endProc, res, phase, calls>>

\* the host thread takes the global lock for a command
HostLock ==
  /\ lk.host = "idle"
  /\ gil = "free"
  /\ gil' = "host"
  /\ lk' = [lk EXCEPT !.host = "holding"]
  /\ UNCHANGED <<input, rps, rootProc, endProc, totalResults, minScore,
                 docTable, iterPos, specLocked, specVersion, res, phase, calls,
                 borrowed, returned, events, stats>>

\* the command is a write to the index: it asks for the spec write lock
HostWantWrite ==
  /\ lk.host = "holding"
  /\ lk' = [lk EXCEPT !.host = "wantWrite"]
  /\ UNCHANGED <<input, rps, rootProc, endProc, totalResults, minScore,
                 docTable, iterPos, gil, specLocked, specVersion, res, phase,
                 calls, borrowed, returned, events, stats>>

\* the write lock is granted once no reader holds the spec; the host writes
HostWrite ==
  /\ lk.host = "wantWrite"
  /\ ~specLocked
  /\ docTable' = [d \in Docs |->
        IF d \in input.hostDeletes /\ docTable[d] = "live"
          THEN "deleted" ELSE docTable[d]]
  /\ specVersion' = IF input.hostBumps THEN specVersion + 1 ELSE specVersion
  /\ lk' = [lk EXCEPT !.host = "written"]
  /\ UNCHANGED <<input, rps, rootProc, endProc, totalResults, minScore,
                 iterPos, gil, specLocked, res, phase, calls,
                 borrowed, returned, events, stats>>

\* the command is over: the host thread lets go of the global lock
HostUnlock ==
  /\ lk.host \in {"holding", "written"}
  /\ gil' = IF gil = "host" THEN "free" ELSE gil
  /\ lk' = [lk EXCEPT !.host = IF @ = "written" THEN "done" ELSE "idle"]
  /\ UNCHANGED <<input, rps, rootProc, endProc, totalResults, minScore,
                 docTable, iterPos, specLocked, specVersion, res, phase, calls,
                 borrowed, returned, events, stats>>

NextLock ==
  \/ PushRP
  \/ LkStart
  \/ LkFill
  \/ LkTryLock
  \/ LkUnlockSpec
  \/ LkLock
  \/ CallNext
  \/ HostLock
  \/ HostWantWrite
  \/ HostWrite
  \/ HostUnlock

\* a request that loads under the lock, beside a host thread that may write
\* to the index: delete the first document, change the version
InitLock ==
  \E s \in {[i \in 1..n |-> i] : n \in 1..MaxDocs}, del \in {{}, {1}},
     bump \in BOOLEAN, ub \in {"noop", "release"}, g \in {"free", "host"} :
    InitWith([DefaultInput EXCEPT
                !.plan = <<Plain("Index"), Plain("Buffer"), Plain("Loader"),
                           Plain("Unlocker")>>,
                !.stream = OKStream(s),
                !.hostDeletes = del, !.hostBumps = bump, !.ubUnlock = ub,
                !.threads = TRUE],
             AllLive, g)

\* Both threads keep running; a thread blocked in lock() gets the lock when
\* it is free often enough; the host's commands end.
FairLock ==
  /\ WF_vars(PushRP)
  /\ WF_vars(LkStart)
  /\ WF_vars(LkFill)
  /\ WF_vars(LkTryLock)
  /\ WF_vars(LkUnlockSpec)
  /\ SF_vars(LkLock)
  /\ WF_vars(HostWrite)
  /\ WF_vars(HostUnlock)

SpecLock == InitLock /\ [][NextLock]_vars /\ FairLock

----------------------------------------------------------------------------
(* What the claims speak of *)

RPIds == 1..Len(rps)
RPsOfType(t) == {id \in RPIds : rps[id].type = t}

\* the returns of RP id, in order
EventsAt(id) == SelectSeq(events, LAMBDA e : e.rp = id)

\* the records RP id returned with OK, in order
Yielded(id) ==
  LET es == SelectSeq(events, LAMBDA e : e.rp = id /\ e.rc = "OK") IN
  [i \in DOMAIN es |-> es[i].r]

\* the returns of RP id with a status other than OK
Terminals(id) == SelectSeq(events, LAMBDA e : e.rp = id /\ e.rc # "OK")

Range(f) == {f[i] : i \in DOMAIN f}
Min(a, b) == IF a < b THEN a ELSE b

\* the order of a score sort: higher score first, then lower doc id
Better(a, b) == a.score > b.score \/ (a.score = b.score /\ a.docId < b.docId)

\* the place of x among the records S in that order
Rank(x, S) == 1 + Cardinality({y \in S : Better(y, x)})

ScoreSorters == {id \in RPsOfType("Sorter") : rps[id].nkeys = 0 /\ rps[id].size # U32(0)}

\* the size K the sorter was built with
SorterK(id) == rps[id].size[2]

\* every non-OK return of RP id so far was rc
OnlyTerminal(id, rc) == \A e \in Range(Terminals(id)) : e.rc = rc

\* C1: a score sorter with K > 0 whose upstream gave n records and then EOF
\* yields the min(K, n) greatest records (higher score first, on equal score
\* lower doc id first), in that order, and then EOF.
C1_TopKByScore ==
  \A id \in ScoreSorters :
    LET ins == Range(Yielded(rps[id].upstream))
        ys == Yielded(id)
        ts == Terminals(id)
    IN
    (Terminals(rps[id].upstream) # <<>> /\ OnlyTerminal(rps[id].upstream, "EOF")) =>
      /\ \A i \in DOMAIN ys : Rank(ys[i], ins) = i /\ i <= SorterK(id)
      /\ OnlyTerminal(id, "EOF")
      /\ ts # <<>> => Len(ys) = Min(SorterK(id), Cardinality(ins))
      /\ \A i, j \in DOMAIN events :
           (i < j /\ events[i].rp = id /\ events[i].rc = "EOF" /\ events[j].rp = id)
             => events[j].rc = "EOF"

\* a sorter has cut a stream with a score tie at the cut and returned EOF
C1_Witness ==
  \E id \in ScoreSorters :
    LET ins == Range(Yielded(rps[id].upstream))
        ys == Yielded(id)
    IN
    /\ Terminals(id) # <<>>
    /\ OnlyTerminal(rps[id].upstream, "EOF")
    /\ Len(ys) = SorterK(id)
    /\ Cardinality(ins) > SorterK(id)
    /\ \E x \in ins : x.docId \notin {ys[i].docId : i \in DOMAIN ys}
                      /\ x.score = ys[Len(ys)].score

Last(s) == s[Len(s)]
DocIdsOf(s) == [i \in DOMAIN s |-> s[i].docId]
IsPrefix(a, b) == Len(a) <= Len(b) /\ SubSeq(b, 1, Len(a)) = a

\* the buffers that yield in validate-and-yield mode what upstream gave them
\* in one buffering pass
Validating ==
  {id \in RPsOfType("Buffer") :
     /\ rps[id].next = "ValidateAndYield"
     /\ input.timeoutPolicy = "Return" \/ OnlyTerminal(rps[id].upstream, "EOF")}

HasReturned(id, rc) == \E e \in Range(Terminals(id)) : e.rc = rc

\* the records of s whose document is not marked deleted
LiveOf(s) == SelectSeq(s, LAMBDA x : docTable[x.docId] # "deleted")

\* C2: a buffer in validate-and-yield mode emits exactly the buffered records
\* whose document is not marked deleted, in buffered order, and skips the
\* others.
C2_ValidateYieldsLive ==
  \A id \in Validating :
    LET want == DocIdsOf(LiveOf(Yielded(rps[id].upstream)))
        got == DocIdsOf(Yielded(id))
    IN
    /\ IsPrefix(got, want)
    /\ HasReturned(id, "EOF") => got = want

\* a validating buffer has reached its end over a deleted and a live document
C2_Witness ==
  \E id \in Validating :
    /\ HasReturned(id, "EOF")
    /\ \E x, y \in Range(Yielded(rps[id].upstream)) :
         docTable[x.docId] = "deleted" /\ docTable[y.docId] = "live"

\* C3: the pipeline thread never waits in the blocking lock while it holds
\* the index-spec read lock, and in the end it enters its yield phase.
C3_NoDeadlock ==
  /\ [](lk.pc = "lock" => ~specLocked)
  /\ <>(lk.pc = "yield")

\* the pipeline yields after it waited for a host that wrote to the index
C3_Witness ==
  /\ lk.pc = "yield"
  /\ lk.waited
  /\ lk.host = "done"
  /\ specVersion # lk.v0

\* the loaders between a buffer and its unlocker
BracketedLoaders ==
  {id \in RPsOfType("Loader") :
     /\ \E b \in RPsOfType("Buffer") : b < id
     /\ \E u \in RPsOfType("Unlocker") : u > id}

\* C4: every record the buffer returns with OK is returned while the pipeline
\* holds the global lock, and a loader between buffer and unlocker reads the
\* key-space only then.
C4_YieldUnderLock ==
  /\ \A i \in DOMAIN events :
       (events[i].type = "Buffer" /\ events[i].rc = "OK")
         => events[i].gil = "pipeline"
  /\ \A a \in stats.access :
       a.rp \in BracketedLoaders => a.gil = "pipeline"

\* a loader has read the key-space after the buffer waited for the lock
C4_Witness ==
  /\ stats.lockWaits # {}
  /\ \E a \in stats.access : a.rp \in BracketedLoaders

\* the end of the chain has returned a status other than OK to the caller
CallerSawTerminal ==
  events # <<>> /\ Last(events).rp = endProc /\ Last(events).rc # "OK"

\* C5: once the end of a chain with a buffer and an unlocker has returned a
\* terminal status to the caller, the pipeline does not hold the global lock.
C5_LockReleasedAtEnd ==
  (RPsOfType("Buffer") # {} /\ RPsOfType("Unlocker") # {} /\ CallerSawTerminal)
    => gil # "pipeline"

\* a chain with buffer and unlocker has ended with EOF after taking the lock
C5_Witness ==
  /\ RPsOfType("Unlocker") # {}
  /\ CallerSawTerminal
  /\ \E e \in Range(events) : e.type = "Buffer" /\ e.rc = "OK"

Max(a, b) == IF a > b THEN a ELSE b

\* the pagers whose upstream has ended, if at all, with EOF, and whose
\* offset and limit are below 2^16, so that their sum does not wrap
Pagers ==
  {id \in RPsOfType("Pager") :
     /\ OnlyTerminal(rps[id].upstream, "EOF")
     /\ rps[id].offset[1] = 0 /\ rps[id].limit[1] = 0}

\* the pagers that read the index source itself
SourcePagers == {id \in Pagers : rps[rps[id].upstream].type = "Index"}

Observable ==
  [totalResults |-> totalResults, minScore |-> minScore, gil |-> gil,
   counts |-> [id \in RPIds |-> rps[id].profileCount],
   held |-> [id \in RPIds |-> <<rps[id].pq, rps[id].buf>>]]

\* C7: once the chain's next() has returned EOF, every later next() returns
\* EOF and changes no observable state.
C7_IdempotentEOF ==
  [][(events # <<>> /\ Last(events).rp = endProc /\ Last(events).rc = "EOF"
        /\ calls' = calls + 1)
       => (Last(events').rc = "EOF" /\ Observable' = Observable)]_vars

\* next() has been called again after the chain returned EOF
C7_Witness ==
  \E i \in DOMAIN events :
    /\ i < Len(events)
    /\ events[i].rp = endProc /\ events[i].rc = "EOF"
    /\ Last(events).rp = endProc

\* C8: every dmd the source borrowed is returned at most once, and exactly
\* once by the time the chain has been destroyed.
C8_EveryBorrowReturnedOnce ==
  /\ \A d \in Docs : returned[d] <= borrowed[d]
  /\ phase = "freed" => \A d \in Docs : returned[d] = borrowed[d]

\* a chain with a buffer has been destroyed after it borrowed documents
C8_Witness ==
  /\ phase = "freed"
  /\ RPsOfType("Buffer") # {}
  /\ \E d \in Docs : borrowed[d] > 0

\* the records that the scorers took from upstream and did not pass on
FilteredOut ==
  LET f[n \in 0..Len(rps)] ==
        IF n = 0 THEN 0
        ELSE f[n - 1] + (IF rps[n].type = "Scorer"
                           THEN Len(Yielded(rps[n].upstream)) - Len(Yielded(n))
                           ELSE 0)
  IN f[Len(rps)]

\* the records the source returned with OK
SourceYielded ==
  Len(SelectSeq(events, LAMBDA e : e.type = "Index" /\ e.rc = "OK"))

\* C9: total_results is the number of records the source returned with OK,
\* less those the scorer filtered out, less those the sorter dropped on a
\* failed load.
C9_TotalResults ==
  totalResults = SourceYielded - FilteredOut - stats.loadFailed

\* a chain has filtered out one record, failed to load another, kept a third
C9_Witness ==
  /\ FilteredOut > 0
  /\ stats.loadFailed > 0
  /\ totalResults > 0

\* the sorters whose upstream timed out under the Return policy
TimedOutSorters ==
  {id \in RPsOfType("Sorter") :
     /\ rps[id].size # U32(0)
     /\ rps[id].nkeys = 0
     /\ input.timeoutPolicy = "Return"
     /\ Terminals(rps[id].upstream) # <<>>
     /\ Terminals(rps[id].upstream)[1].rc = "TIMEDOUT"}

\* C10: under the Return policy, a sorter whose upstream times out after j
\* records yields those records (the best K of them) in sorted order and then
\* EOF; its caller never sees TIMED_OUT.
C10_TimeoutReturn ==
  \A id \in TimedOutSorters :
    LET ins == Range(Yielded(rps[id].upstream))
        ys == Yielded(id)
    IN
    /\ OnlyTerminal(id, "EOF")
    /\ Len(Terminals(rps[id].upstream)) = 1
    /\ \A i \in DOMAIN ys : Rank(ys[i], ins) = i
    /\ Terminals(id) # <<>> => Len(ys) = Min(SorterK(id), Cardinality(ins))

\* a timeout cut the stream after K records and the sorter yielded them all
C10_Witness ==
  \E id \in TimedOutSorters :
    /\ Terminals(id) # <<>>
    /\ Len(Yielded(id)) = SorterK(id)
    /\ Cardinality(Range(Yielded(rps[id].upstream))) = SorterK(id)
    /\ Len(input.stream) > SourceYielded + 1
    /\ SorterK(id) > 1

\* the chains that accumulate: they hold a sorter or a buffer
Accumulating == RPsOfType("Sorter") \cup RPsOfType("Buffer") # {}

\* the source has returned TIMED_OUT under the Fail policy
SourceTimedOutFail ==
  /\ input.timeoutPolicy = "Fail"
  /\ \E id \in RPsOfType("Index") : HasReturned(id, "TIMEDOUT")

\* C11: under the Fail policy, once the source has returned TIMED_OUT, a
\* chain with a sorter or a buffer has returned TIMED_OUT to the caller and
\* the caller has no OK record from it, before or after.
C11_TimeoutFail ==
  (Accumulating /\ SourceTimedOutFail) =>
    /\ HasReturned(endProc, "TIMEDOUT")
    /\ Yielded(endProc) = <<>>

\* the caller has called again after a TIMED_OUT under the Fail policy
C11_Witness ==
  /\ Accumulating
  /\ SourceTimedOutFail
  /\ calls > 1
  /\ Len(Terminals(endProc)) > 1

\* the statuses an RP may return to its caller
PublicStatus == {"OK", "EOF", "TIMEDOUT", "ERROR"}

\* C12: the sorter never returns its internal RESULT_QUEUED status: every
\* return of its next() is OK, EOF, TIMED_OUT or ERROR, and every call of a
\* sorter at the end of a chain has returned.
C12_QueuedNeverReturned ==
  \A id \in RPsOfType("Sorter") :
    /\ \A e \in Range(EventsAt(id)) : e.rc \in PublicStatus
    /\ id = endProc => Len(EventsAt(id)) = calls

\* a sorter has returned after it queued records and dropped one whose load
\* failed
C12_Witness ==
  \E id \in RPsOfType("Sorter") :
    /\ stats.loadFailed > 0
    /\ Len(Yielded(rps[id].upstream)) > 2
    /\ Yielded(id) # <<>>

\* the count of a counter is the number of OK records it pulled, and each of
\* them was cleared
CountsAndClears(id) ==
  LET xs == Yielded(rps[id].upstream) IN
  /\ rps[id].counted = Len(xs)
  /\ \A i \in DOMAIN xs :
       xs[i].dmd # 0 => returned[xs[i].dmd] = borrowed[xs[i].dmd]

\* C13 as stated: a counter's next() always returns EOF, whatever status its
\* upstream ends with, and its count is the number of OK records it pulled,
\* each of them cleared.
C13_CounterAlwaysEOF ==
  \A id \in RPsOfType("Counter") :
    /\ \A e \in Range(EventsAt(id)) : e.rc = "EOF"
    /\ CountsAndClears(id)

\* C13: a counter's next() never returns OK: it returns the status its
\* upstream ended with (EOF, TIMED_OUT), and its count is the number of OK
\* records it pulled, each of them cleared.
C13_CounterNeverOK ==
  \A id \in RPsOfType("Counter") :
    /\ \A e \in Range(EventsAt(id)) : e.rc # "OK"
    /\ Len(Terminals(id)) = Len(Terminals(rps[id].upstream))
    /\ \A i \in DOMAIN Terminals(id) :
         Terminals(id)[i].rc = Terminals(rps[id].upstream)[i].rc
    /\ CountsAndClears(id)

\* a counter has returned TIMED_OUT and has counted records
C13_Witness ==
  \E id \in RPsOfType("Counter") :
    /\ HasReturned(id, "TIMEDOUT")
    /\ HasReturned(id, "EOF")
    /\ rps[id].counted > 1

\* the buffers that yield in plain mode what upstream gave them in one
\* buffering pass
PlainYielding ==
  {id \in RPsOfType("Buffer") :
     /\ rps[id].next = "Yield"
     /\ input.timeoutPolicy = "Return" \/ OnlyTerminal(rps[id].upstream, "EOF")}

WasLive(d) == docTable[d] = "live" \/ d \in input.hostDeletes

\* slot filtering is active and the document's key is outside the shard's range
OutsideShard(d) == input.isTrimming /\ ~input.doc[d].inSlot

\* the postings the source has read so far that pass its filters
SourcePassed ==
  SelectSeq(SubSeq(input.stream, 1, iterPos - 1),
            LAMBDA e : e.kind = "OK" /\ WasLive(e.docId) /\ ~OutsideShard(e.docId))

\* C15: the source returns OK exactly for the postings it has read whose
\* document the table holds, not deleted and inside the shard's slots, in
\* order; a skipped posting is not returned, leaves total_results alone and
\* has its borrow given back.
C15_SourceFilter ==
  /\ \A id \in RPsOfType("Index") :
       /\ DocIdsOf(Yielded(id)) = DocIdsOf(SourcePassed)
       /\ \A i \in DOMAIN Yielded(id) : Yielded(id)[i].dmd = Yielded(id)[i].docId
       /\ totalResults + FilteredOut + stats.loadFailed = Len(SourcePassed)
  /\ \A d \in Docs : (~WasLive(d) \/ OutsideShard(d)) => borrowed[d] = returned[d]

\* the source has read to the end a stream holding a NOT_FOUND read, a deleted
\* document and one outside the slots, and has returned a document after them
C15_Witness ==
  /\ iterPos > Len(input.stream)
  /\ \E i \in DOMAIN input.stream : input.stream[i].kind = "NOTFOUND"
  /\ \E d \in Docs : docTable[d] = "deleted" /\ ~WasLive(d) /\ borrowed[d] > 0
  /\ \E d \in Docs : OutsideShard(d) /\ borrowed[d] > 0
  /\ \E id \in RPsOfType("Index") :
       Len(Yielded(id)) > 0 /\ Last(Yielded(id)).docId = MaxDocs

\* the sorters built with sort keys
FieldSorters == {id \in RPsOfType("Sorter") : rps[id].nkeys # 0}

\* on a doc id tie-break, a comes before b: by rising doc id when the
\* ascending bit is set, by falling doc id when it is not
IdBefore(a, b, asc) == IF asc THEN a.docId < b.docId ELSE a.docId > b.docId

\* record a comes before record b in the order of sorter self, from key i on
RECURSIVE FieldBeforeFrom(_, _, _, _)
FieldBeforeFrom(self, a, b, i) ==
  IF i > self.nkeys THEN IdBefore(a, b, self.nkeys \in self.ascendMap)
  ELSE
    LET va == RLookup_GetItem(i, a)
        vb == RLookup_GetItem(i, b)
        asc == i \in self.ascendMap
    IN
    IF va = 0 /\ vb = 0 THEN IdBefore(a, b, asc)
    ELSE IF vb = 0 THEN TRUE
    ELSE IF va = 0 THEN FALSE
    ELSE IF va # vb THEN (IF asc THEN va < vb ELSE va > vb)
    ELSE FieldBeforeFrom(self, a, b, i + 1)

\* rows (1,"b"), (2,"a"), (3,"c"), sorted ascending on one key, all yielded
FieldSortExample(id) ==
  LET ys == Yielded(id) IN
  /\ rps[id].nkeys = 1 /\ 1 \in rps[id].ascendMap
  /\ HasReturned(id, "EOF")
  /\ Len(ys) = 3
  /\ \A i \in DOMAIN ys :
       /\ ys[i].docId \in 1..3
       /\ RLookup_GetItem(1, ys[i]) = <<2, 1, 3>>[ys[i].docId]

\* C16: a sorter built with sort keys yields its records in the order where,
\* key by key, a record that has the value comes before one that lacks it,
\* two records that both lack it go by doc id, two different values go by
\* value (rising when the key's ascending bit is set, falling when not) and
\* a tie on every key goes by doc id, the doc id order rising when the
\* ascending bit is set; rows (1,"b"), (2,"a"), (3,"c") sorted ascending on
\* one key come out as 2, 1, 3.
C16_FieldSortOrder ==
  \A id \in FieldSorters :
    LET ys == Yielded(id)
        n == Cardinality(Range(Yielded(rps[id].upstream))) - stats.loadFailed
    IN
    /\ \A i, j \in DOMAIN ys : i < j => FieldBeforeFrom(rps[id], ys[i], ys[j], 1)
    /\ HasReturned(id, "EOF") =>
         Len(ys) = IF rps[id].size = U32(0) THEN n ELSE Min(rps[id].size[2], n)
    /\ FieldSortExample(id) => DocIdsOf(ys) = <<2, 1, 3>>

\* a sorter on two keys has yielded, among others, two records that tie on
\* the first key and differ on the second, and a record that lacks the first
C16_Witness ==
  \E id \in FieldSorters :
    LET ys == Yielded(id) IN
    /\ rps[id].nkeys = 2
    /\ rps[id].ascendMap = {2}
    /\ HasReturned(id, "EOF")
    /\ \E i, j \in DOMAIN ys :
         /\ i < j
         /\ RLookup_GetItem(1, ys[i]) # 0
         /\ RLookup_GetItem(1, ys[i]) = RLookup_GetItem(1, ys[j])
         /\ RLookup_GetItem(2, ys[i]) # 0
         /\ RLookup_GetItem(2, ys[i]) < RLookup_GetItem(2, ys[j])
    /\ \E i \in DOMAIN ys : RLookup_GetItem(1, ys[i]) = 0

\* the statuses RP id returned, in order
StatusesAt(id) == [i \in DOMAIN EventsAt(id) |-> EventsAt(id)[i].rc]

\* the loader does not call the document loader for record x
SkipsLoad(x) == x.dmd = 0 \/ docTable[x.dmd] = "deleted"

\* record x after a load that succeeded: the host's values written to the row
Loaded(x) ==
  [x EXCEPT !.dyn = [k \in Keys |-> IF input.doc[x.dmd].hashVal[k] # 0
                                      THEN input.doc[x.dmd].hashVal[k] ELSE @[k]]]

\* C17: the loader returns the status its upstream returned, call by call; a
\* record without dmd, or of a deleted document, goes out with OK as it came
\* and the host is not read for it; a record whose load fails goes out with
\* OK as it came; any other goes out loaded; total_results is not touched.
C17_LoaderPassesAll ==
  \A id \in RPsOfType("Loader") :
    LET xs == Yielded(rps[id].upstream)
        ys == Yielded(id)
    IN
    /\ StatusesAt(id) = StatusesAt(rps[id].upstream)
    /\ \A i \in DOMAIN ys :
         ys[i] = IF SkipsLoad(xs[i]) \/ input.doc[xs[i].dmd].loadFails
                   THEN xs[i] ELSE Loaded(xs[i])
    /\ (\E a \in stats.access : a.rp = id) <=> (\E i \in DOMAIN ys : ~SkipsLoad(xs[i]))
    /\ totalResults = SourceYielded - FilteredOut - stats.loadFailed

\* a loader has passed on a record of a deleted document, one whose load
\* failed and one it loaded, and then its upstream's EOF
C17_Witness ==
  \E id \in RPsOfType("Loader") :
    LET ys == Yielded(id) IN
    /\ HasReturned(id, "EOF")
    /\ \E i \in DOMAIN ys : ys[i].dmd # 0 /\ docTable[ys[i].dmd] = "deleted"
    /\ \E i \in DOMAIN ys : /\ ys[i].dmd # 0 /\ docTable[ys[i].dmd] = "live"
                            /\ input.doc[ys[i].dmd].loadFails
    /\ \E i \in DOMAIN ys : /\ ys[i].dmd # 0 /\ docTable[ys[i].dmd] = "live"
                            /\ \E k \in Keys : ys[i].dyn[k] # 0

\* the RPs met from rp along the upstream links, at most n of them
RECURSIVE UpstreamWalk(_, _)
UpstreamWalk(rp, n) ==
  IF rp = 0 \/ n = 0 THEN <<>>
  ELSE <<rp>> \o UpstreamWalk(rps[rp].upstream, n - 1)

\* C18: QITR_FreeChain frees every RP of the chain exactly once, in the order
\* of the upstream links from endProc to rootProc, whatever was pushed before;
\* until then no RP is freed.
C18_FreeChainFreesAll ==
  LET walk == UpstreamWalk(endProc, Len(rps)) IN
  /\ Range(walk) = RPIds
  /\ rps # <<>> => walk[1] = endProc /\ Last(walk) = rootProc
                   /\ rps[rootProc].upstream = 0
  /\ phase = "freed" => /\ stats.freeOrder = walk
                        /\ \A id \in RPIds : rps[id].freed = 1
  /\ phase \in {"build", "run"} => /\ stats.freeOrder = <<>>
                        /\ \A id \in RPIds : rps[id].freed = 0

\* a chain of at least four pushed RPs has run to EOF and been destroyed
C18_Witness ==
  /\ phase = "freed"
  /\ Len(input.plan) >= 4
  /\ Len(rps) >= Len(input.plan)
  /\ \E e \in Range(events) : e.rp = endProc /\ e.rc = "EOF"

\* the scoring function gives the record the FILTER_OUT sentinel
IsFilteredOut(x) == input.doc[x.docId].score = RS_SCORE_FILTEROUT

\* the records scorer id took from upstream and the scoring function filters
FilteredAt(id) == SelectSeq(Yielded(rps[id].upstream), IsFilteredOut)

\* C19: the scorer never returns a record scored FILTER_OUT; it returns, in
\* order, exactly the other records its upstream gave it; every filtered
\* record has had its dmd released and has taken one off total_results.
C19_ScorerFiltersOut ==
  \A id \in {s \in RPsOfType("Scorer") : ~input.prunes} :
    LET xs == Yielded(rps[id].upstream)
        ys == Yielded(id)
    IN
    /\ \A i \in DOMAIN ys : ys[i].score # RS_SCORE_FILTEROUT
    /\ DocIdsOf(ys) = DocIdsOf(SelectSeq(xs, LAMBDA x : ~IsFilteredOut(x)))
    /\ \A i \in DOMAIN ys : ys[i].score = input.doc[ys[i].docId].score
    /\ \A x \in Range(FilteredAt(id)) : returned[x.docId] = borrowed[x.docId]
    /\ totalResults = SourceYielded - Len(FilteredAt(id)) - stats.loadFailed

\* a scorer has filtered a record out, returned one that came after it, and
\* seen its upstream end
C19_Witness ==
  \E id \in RPsOfType("Scorer") :
    LET ys == Yielded(id) IN
    /\ HasReturned(id, "EOF")
    /\ \E x \in Range(FilteredAt(id)) : \E i \in DOMAIN ys : x.docId < ys[i].docId
    /\ \E x \in Range(FilteredAt(id)) : \E i \in DOMAIN ys : x.docId > ys[i].docId
    /\ totalResults = Len(ys)

\* the yield mode of the buffer, once it is built
BufferMode ==
  IF RPsOfType("Buffer") # {} THEN rps[BufId].next ELSE "bufferDocs"

\* C20: the buffer chooses its yield mode at the lock and nowhere else: plain
\* when try_lock gets the lock; after a failed try_lock and the blocking
\* lock, validate-and-yield if the index-spec version then differs from the
\* one recorded before buffering, plain if it is the same.
C20_YieldMode ==
  [][/\ (lk.pc = "try" /\ lk'.pc # "try") =>
          IF gil = "free" THEN BufferMode' = "Yield"
                          ELSE BufferMode' = "bufferDocs" /\ lk'.pc # "yield"
     /\ (lk.pc = "lock" /\ lk'.pc # "lock") =>
          BufferMode' = (IF specVersion' # lk.v0 THEN "ValidateAndYield" ELSE "Yield")
     /\ BufferMode' # BufferMode => lk.pc \in {"try", "lock"}
     /\ BufferMode' = "ValidateAndYield" => lk'.waited]_vars

\* the buffer found the lock taken, waited for it, found the version changed
\* and yields in validate-and-yield mode
C20_Witness ==
  /\ lk.waited
  /\ BufferMode = "ValidateAndYield"
  /\ specVersion # lk.v0
  /\ \E e \in Range(events) : e.rp = BufId

\* the returns of the index source
IndexReads == SelectSeq(events, LAMBDA e : e.type = "Index")

\* C21: once the buffer has gone to the host global lock (its Next is a yield
\* function) no step calls its upstream or reads the index iterator again;
\* the index iterator is read only in steps that start with the index-spec
\* read lock held; once released, the read lock is never held again.
C21_NoIndexAccessAfterLock ==
  [][/\ \A id \in RPsOfType("Buffer") :
          rps[id].next # "bufferDocs" =>
            /\ EventsAt(rps[id].upstream)' = EventsAt(rps[id].upstream)
            /\ IndexReads' = IndexReads
            /\ iterPos' = iterPos
     /\ (IndexReads' # IndexReads \/ iterPos' # iterPos) => specLocked
     /\ ~specLocked => ~specLocked']_vars

\* a buffer that released the spec read lock to wait for the host has since
\* been called until it returned EOF
C21_Witness ==
  \E id \in RPsOfType("Buffer") :
    /\ ~specLocked
    /\ rps[id].next # "bufferDocs"
    /\ Len(Yielded(id)) >= 2
    /\ HasReturned(id, "EOF")

\* the buffers whose upstream has ended with EOF without giving a record
EmptyBuffers ==
  {id \in RPsOfType("Buffer") :
     /\ Yielded(rps[id].upstream) = <<>>
     /\ Terminals(rps[id].upstream) # <<>>
     /\ OnlyTerminal(rps[id].upstream, "EOF")}

DiscardedAt(id) ==
  LET es == EventsAt(rps[id].upstream) IN
  {es[i].r.docId : i \in {i \in DOMAIN es :
     /\ es[i].rc = "OK"
     /\ \E j \in DOMAIN es :
          /\ i < j /\ es[j].rc = "TIMEDOUT"
          /\ \A k \in (i + 1)..(j - 1) : es[k].rc = "OK"}}

\* C23: under the Fail policy a buffer whose upstream times out while it
\* buffers returns TIMED_OUT without the host global lock; the records it
\* held are never emitted, and their dmd borrows have been released by the
\* time the chain is destroyed.
C23_FailDiscardsBuffer ==
  \A id \in RPsOfType("Buffer") :
    input.timeoutPolicy = "Fail" =>
      /\ \A e \in Range(EventsAt(id)) : e.rc = "TIMEDOUT" => e.gil # "pipeline"
      /\ Len(SelectSeq(EventsAt(id), LAMBDA e : e.rc = "TIMEDOUT"))
           = Len(SelectSeq(EventsAt(rps[id].upstream), LAMBDA e : e.rc = "TIMEDOUT"))
      /\ \A d \in DiscardedAt(id) : d \notin Range(DocIdsOf(Yielded(id)))
      /\ phase = "freed" => \A d \in DiscardedAt(id) : returned[d] = borrowed[d]

\* a buffer that held a record when its upstream timed out under Fail has
\* been destroyed with its chain
C23_Witness ==
  \E id \in RPsOfType("Buffer") :
    /\ input.timeoutPolicy = "Fail"
    /\ DiscardedAt(id) # {}
    /\ HasReturned(id, "TIMEDOUT")
    /\ phase = "freed"

\* the score sorters that hold records
HoldingScoreSorters == {id \in ScoreSorters : rps[id].pq # {}}

\* the lowest score among the records in the heap of sorter id
LowestScore(id) ==
  CHOOSE m \in {x.score : x \in rps[id].pq} : \A x \in rps[id].pq : m <= x.score

\* C24, as stated: with records in the heap of a score sorter, min_score is
\* the lowest score among them.
C24_MinScoreIsLowest ==
  \A id \in HoldingScoreSorters : minScore = LowestScore(id)

\* C24, amended: with records in the heap of a score sorter, min_score is at
\* most the lowest score among them, and is 0 or a score the sorter was given.
C24_MinScoreIsLowerBound ==
  \A id \in HoldingScoreSorters :
    /\ minScore <= LowestScore(id)
    /\ minScore \in {0} \cup {x.score : x \in Range(Yielded(rps[id].upstream))}

\* a full heap has replaced its least record by a better one: min_score is
\* the score of the record that left, below every score in the heap
C24_Witness ==
  \E id \in HoldingScoreSorters :
    /\ Cardinality(rps[id].pq) = SorterK(id)
    /\ minScore > 0
    /\ minScore < LowestScore(id)
    /\ Yielded(id) = <<>>

\* Profile_AddRPs has been applied to the chain the plan built
Profiled == input.profile /\ Len(rps) > Len(input.plan)

\* C25: Profile_AddRPs turns a chain of n RPs into one of 2n: from endProc
\* along the upstream links a profiler, the last RP pushed, a profiler, the
\* RP pushed before it, and so on down to the first RP pushed, which is
\* still rootProc; every profiler's upstream is an original RP.
C25_ProfileStructure ==
  Profiled =>
    LET n == Len(input.plan)
        walk == UpstreamWalk(endProc, 2 * n + 1)
    IN
    /\ n >= 1
    /\ Len(rps) = 2 * n
    /\ Len(walk) = 2 * n
    /\ \A k \in 1..n :
         /\ walk[2 * k] = n + 1 - k
         /\ rps[walk[2 * k]].type = input.plan[n + 1 - k].type
         /\ walk[2 * k - 1] > n
         /\ rps[walk[2 * k - 1]].type = "Profile"
    /\ \A i, j \in DOMAIN walk : i # j => walk[i] # walk[j]
    /\ rootProc = 1 /\ rps[rootProc].upstream = 0
    /\ rps[endProc].type = "Profile"

\* chains of one, of two and of more RPs have been profiled: here the
\* longest, run and destroyed
C25_Witness ==
  /\ Profiled
  /\ Len(input.plan) >= 7
  /\ phase = "freed"
  /\ events # <<>>

\* the returns of the counters of a profiled chain
CounterReturns == Len(SelectSeq(events, LAMBDA e : e.type = "Counter"))

\* C26, as stated: in a profiled chain the profiler the counter pulls from
\* has counted its own calls and one more for every return of the counter;
\* every other profiler has counted its own calls only.
C26_CounterCompensatesUpstream ==
  Profiled =>
    \A p \in RPsOfType("Profile") :
      rps[p].profileCount =
        Len(EventsAt(p)) +
          (IF \E c \in RPsOfType("Counter") : rps[c].upstream = p
             THEN CounterReturns ELSE 0)

\* C26, amended: in a profiled chain the profiler at endProc has counted its
\* own calls and one more for every return of the counter; every other
\* profiler, the one the counter pulls from included, has counted its own
\* calls only.
C26_CounterCompensatesEnd ==
  Profiled =>
    \A p \in RPsOfType("Profile") :
      rps[p].profileCount =
        Len(EventsAt(p)) + (IF p = endProc THEN CounterReturns ELSE 0)

\* a profiled chain that ends in a counter has counted two records and
\* returned EOF
C26_Witness ==
  /\ Profiled
  /\ \E c \in RPsOfType("Counter") :
       /\ rps[endProc].upstream = c
       /\ rps[c].counted >= 2
       /\ HasReturned(c, "EOF")
       /\ rps[rps[c].upstream].profileCount = rps[c].counted + 1
  /\ rps[endProc].profileCount = 2

\* the place of document d among the records upstream gave sorter id
ArrivalOf(id, d) ==
  CHOOSE i \in DOMAIN Yielded(rps[id].upstream) :
    Yielded(rps[id].upstream)[i].docId = d

C28_CleanupFreesAll ==
  phase = "cleaned" => \A id \in RPIds : rps[id].freed = 1

\* QITR_Cleanup has been called on a chain of at least two pushed RPs
C28_Witness ==
  /\ phase = "cleaned"
  /\ Len(rps) >= 2
  /\ rps[rootProc].freed = 1

\* the times the pipeline has taken the host global lock: once for every
\* buffer that has gone past its buffering
Acquisitions == Cardinality({id \in RPsOfType("Buffer") : rps[id].next # "bufferDocs"})

\* C29: the unlocker unlocks the host global lock only while the pipeline
\* holds it, and at most once for every time the pipeline took it.
C29_BalancedUnlock ==
  /\ stats.badUnlocks = 0
  /\ stats.unlocks <= Acquisitions

\* the unlocker of a chain whose buffer stayed empty has passed on EOF
C29_Witness ==
  /\ EmptyBuffers # {}
  /\ \E id \in RPsOfType("Unlocker") : HasReturned(id, "EOF")
  /\ ~input.iiterNull

\* the score sorters behind a scoring function that prunes below min_score
PruningSorters == {id \in ScoreSorters : input.prunes}

\* the records the source read, with the score the scoring function gives
\* them when it does not prune, less those it filters out for itself
Candidates ==
  {[docId |-> e.r.docId, score |-> input.doc[e.r.docId].score] :
     e \in {x \in Range(events) : x.type = "Index" /\ x.rc = "OK"
                                  /\ input.doc[x.r.docId].score # RS_SCORE_FILTEROUT}}

\* with records in the heap, min_score is at most the lowest score in it
MinScoreBelowHeap ==
  \A id \in HoldingScoreSorters : minScore <= LowestScore(id)

\* the heap of sorter id has held K records
HeapFilled(id) ==
  Cardinality(rps[id].pq) + Len(Yielded(id)) >= SorterK(id)

\* the sorter behind a pruning scorer, once at EOF, has yielded the
\* min(K, n) best of the n records the source read, best first
PrunedKeepsTopK(id) ==
  LET ys == Yielded(id) IN
  HasReturned(id, "EOF") =>
    /\ Len(ys) = Min(SorterK(id), Cardinality(Candidates))
    /\ \A i \in DOMAIN ys : Rank(ys[i], Candidates) = i

\* no record the source read scores below the min_score of construction
NoScoreBelowZero == \A c \in Candidates : c.score >= 0

\* C30, as stated: min_score never exceeds the lowest score in a non-empty
\* heap, it never decreases once the heap has held K records, and a scorer
\* that prunes below min_score leaves the final top-K what it would be
\* without pruning.
C30_PruningSafe ==
  [][/\ MinScoreBelowHeap'
     /\ (\E id \in ScoreSorters : HeapFilled(id)) => minScore' >= minScore
     /\ \A id \in PruningSorters' : PrunedKeepsTopK(id)']_vars

\* C30, amended: the same, the top-K part for runs in which no record scores
\* below 0, the min_score the handle is constructed with.
C30_PruningSafeFromZero ==
  [][/\ MinScoreBelowHeap'
     /\ (\E id \in ScoreSorters : HeapFilled(id)) => minScore' >= minScore
     /\ NoScoreBelowZero' => \A id \in PruningSorters' : PrunedKeepsTopK(id)']_vars

\* a pruning run without negative scores has filled the heap, raised
\* min_score above 0, pruned a record, and come to EOF
C30_Witness ==
  \E id \in PruningSorters :
    /\ NoScoreBelowZero
    /\ HasReturned(id, "EOF")
    /\ minScore > 0
    /\ Len(Yielded(id)) = SorterK(id)
    /\ Len(Yielded(rps[id].upstream)) < Cardinality(Candidates)

\* the orders in which the records of sequence s can arrive
ArrivalOrders(s) ==
  {[i \in DOMAIN s |-> s[f[i]]] :
     f \in {g \in [DOMAIN s -> DOMAIN s] : \A i, j \in DOMAIN s : i # j => g[i] # g[j]}}

\* sorter id of world w takes the records of s, in order
RECURSIVE InsertAll(_, _, _)
InsertAll(w, id, s) ==
  IF s = <<>> THEN w ELSE InsertAll(rpsortInsert(w, id, Head(s)), id, Tail(s))

\* what sorter id of world w yields until it returns EOF
RECURSIVE YieldAll(_, _)
YieldAll(w, id) ==
  LET y == rpsortNext_Yield(w, id, NullRes) IN
  IF y.rc = "OK" THEN <<y.r>> \o YieldAll(y.w, id) ELSE <<>>

\* the doc ids sorter id of world w yields when its upstream gives it the
\* records of s, in order, and then EOF
SortedFrom(w, id, s) == DocIdsOf(YieldAll(InsertAll(w, id, s), id))

\* the world of this state with sorter id as it was built
Afresh(id) ==
  [World EXCEPT !.rps[id].pq = {}, !.rps[id].pooled = <<>>,
                !.rps[id].offset = U32(0), !.minScore = 0,
                !.events = <<>>]

\* the score sorters whose upstream gave records and then EOF, and which
\* have yielded to their own EOF
DoneScoreSorters ==
  {id \in ScoreSorters :
     /\ Terminals(rps[id].upstream) # <<>>
     /\ OnlyTerminal(rps[id].upstream, "EOF")
     /\ HasReturned(id, "EOF")}

\* C31: what a score sorter with K > 0 yields is what it yields for every
\* other order of arrival of the same records (distinct doc ids).
C31_OrderIndependent ==
  \A id \in DoneScoreSorters :
    LET xs == Yielded(rps[id].upstream)
        ys == DocIdsOf(Yielded(id))
        w == Afresh(id)
    IN
    (\A i, j \in DOMAIN xs : i # j => xs[i].docId # xs[j].docId) =>
      \A p \in ArrivalOrders(xs) : ys = SortedFrom(w, id, p)

\* a sorter has cut a stream longer than K that held a score tie and did not
\* arrive best first
C31_Witness ==
  \E id \in DoneScoreSorters :
    LET xs == Yielded(rps[id].upstream) IN
    /\ Len(xs) > SorterK(id)
    /\ Len(Yielded(id)) = SorterK(id)
    /\ \E i, j \in DOMAIN xs : i < j /\ Better(xs[j], xs[i])
    /\ \E i, j \in DOMAIN xs : i # j /\ xs[i].score = xs[j].score

\* the 32-bit sum limit + offset of pager self has wrapped
SumWraps(self) == U32Lt(U32Add(self.limit, self.offset), self.offset)

\* seen >= offset + limit over the integers: the sum of a pager that wraps
\* is 2^32 or more, which no 32-bit count reaches
MathLimitReached(self) ==
  ~SumWraps(self) /\ U32Ge(self.count, U32Add(self.limit, self.offset))

\* the pagers of any offset and limit that read the index source, whose
\* upstream has ended, if at all, with EOF
WidePagers ==
  {id \in RPsOfType("Pager") :
     /\ rps[rps[id].upstream].type = "Index"
     /\ OnlyTerminal(rps[id].upstream, "EOF")}

\* min(limit, n - offset) for pager self over n records, 0 when offset >= n
WindowLength(self, n) ==
  IF U32Ge(self.offset, U32(n)) THEN 0
  ELSE IF U32Lt(self.limit, U32(n - self.offset[2])) THEN self.limit[2]
  ELSE n - self.offset[2]

\* C32: for every 32-bit offset and limit the pager's limit test is the
\* comparison seen >= offset + limit over the integers, and a pager that
\* returns EOF has yielded min(limit, n - offset) of the n records of its
\* upstream.
C32_PagerNoWrap ==
  /\ \A id \in RPsOfType("Pager") :
       PagerLimitReached(rps[id]) = MathLimitReached(rps[id])
  /\ \A id \in WidePagers :
       HasReturned(id, "EOF") =>
         Len(Yielded(id)) = WindowLength(rps[id], Len(input.stream))

\* a pager whose sum wrapped has returned EOF with records of its window
\* left unread upstream
C32_Witness ==
  \E id \in WidePagers :
    /\ SumWraps(rps[id])
    /\ HasReturned(id, "EOF")
    /\ ~HasReturned(rps[id].upstream, "EOF")
    /\ Len(Yielded(id)) < WindowLength(rps[id], Len(input.stream))

\* the posting the index iterator is at: the one the source returned last
CurrentPosting ==
  LET oks == SelectSeq(IndexReads, LAMBDA e : e.rc = "OK") IN
  IF oks = <<>> THEN 0 ELSE Last(oks).r.indexResult

\* C33: every record the buffer emits has no index_result, or one that is
\* still the posting the source iterator is at; none carries the borrow of a
\* posting the source has since left.
C33_NoStaleIndexResult ==
  \A e \in Range(events) :
    (e.type = "Buffer" /\ e.rc = "OK") =>
      e.r.indexResult \in {0, CurrentPosting}

\* a buffer that took two records from the source has emitted the first
\* with the index_result it was buffered with
C33_Witness ==
  \E id \in RPsOfType("Buffer") :
    /\ rps[rps[id].upstream].type = "Index"
    /\ Len(Yielded(rps[id].upstream)) >= 2
    /\ \E y \in Range(Yielded(id)) :
         /\ y.indexResult # 0
         /\ y.indexResult = Yielded(rps[id].upstream)[1].indexResult
         /\ y.indexResult # CurrentPosting

====
